---------------------------- MODULE Spec2Model ----------------------------
(***************************************************************************)
(* A model of the ryu-modern patch engine: tools/ryu_modernize.py (apply,  *)
(* rollback, the ledger, the backups) and tools/fix_collections_imports.py *)
(* (the scanner and its rewrite rules).                                     *)
(*                                                                         *)
(* Text is modelled at the level of lexical tokens: a file's content is a  *)
(* sequence of tokens (words, punctuation, runs of blanks, "\n"), and the  *)
(* regular expressions of the source are matched token by token.  Two      *)
(* adjacent word tokens stand for one glued word ("OrderedDict" followed   *)
(* by "from" is the text "OrderedDictfrom"), so a \b of the source holds   *)
(* between two tokens unless both are words.                                *)
(***************************************************************************)
EXTENDS Integers, Sequences, FiniteSets, TLC

(***************************************************************************)
(* Bounds of the model.                                                    *)
(***************************************************************************)
\* apply sessions started in one behaviour
MaxSessions == 2
\* user edits of source files between sessions in one behaviour
MaxEdits == 1
\* largest numeric disambiguator of a backup name (".bak.1" .. ".bak.N")
MaxCounter == 2
\* applications of the rewrite rules to one text (specification SpecTE)
MaxPasses == 3
\* calls of ensure_backup in one session (specification SpecEB)
MaxCalls == 3

(***************************************************************************)
(* Tokens and lines                                                        *)
(***************************************************************************)
NL == "\n"
SP == " "
IND == "    "

\* str.isspace() on a token: what strip() and \s accept
IsSpace(t) == t \in {SP, IND, NL}

\* blanks inside a line (\s that is not the line ending)
IsBlank(t) == t \in {SP, IND}

\* tokens that neither start nor end with a word character (\w)
Punct == {SP, IND, NL, ".", ",", "*", "(", ")", "#", "=", ":", ";",
          "==", ">=", "<=", "~=", "<", ">"}

IsWordTok(t) == t \notin Punct

\* the width in characters of a run of blanks
Width(t) == IF t = IND THEN 4 ELSE 1

Last(s) == s[Len(s)]

\* the first index at or after i whose token satisfies no blank test; Len+1 if none
RECURSIVE SkipBlanks(_, _)
SkipBlanks(l, i) ==
    IF i <= Len(l) /\ IsBlank(l[i]) THEN SkipBlanks(l, i + 1) ELSE i

\* str.lstrip(): drop the leading whitespace tokens
RECURSIVE lstrip(_)
lstrip(l) == IF l # <<>> /\ IsSpace(l[1]) THEN lstrip(Tail(l)) ELSE l

\* str.rstrip(): drop the trailing whitespace tokens
RECURSIVE rstrip(_)
rstrip(l) ==
    IF l # <<>> /\ IsSpace(Last(l)) THEN rstrip(SubSeq(l, 1, Len(l) - 1)) ELSE l

\* str.strip()
strip(l) == rstrip(lstrip(l))

\* line.rstrip("\r\n"): drop the trailing line ending
RECURSIVE rstrip_nl(_)
rstrip_nl(l) ==
    IF l # <<>> /\ Last(l) = NL THEN rstrip_nl(SubSeq(l, 1, Len(l) - 1)) ELSE l

\* the first index of a token of set S in l, 0 if there is none
FirstIdx(l, S) ==
    IF \E i \in 1..Len(l) : l[i] \in S
    THEN CHOOSE i \in 1..Len(l) : l[i] \in S /\ \A j \in 1..(i - 1) : l[j] \notin S
    ELSE 0

\* str.splitlines(keepends=True)
RECURSIVE splitlines_keepends(_)
splitlines_keepends(t) ==
    IF t = <<>> THEN <<>>
    ELSE LET k == IF FirstIdx(t, {NL}) = 0 THEN Len(t) ELSE FirstIdx(t, {NL})
         IN  <<SubSeq(t, 1, k)>> \o splitlines_keepends(SubSeq(t, k + 1, Len(t)))

\* str.splitlines()
splitlines(t) ==
    LET ls == splitlines_keepends(t)
    IN  [i \in 1..Len(ls) |-> rstrip_nl(ls[i])]

\* "".join(lines)
RECURSIVE join(_)
join(ls) == IF ls = <<>> THEN <<>> ELSE ls[1] \o join(Tail(ls))

\* sep.join(items)
RECURSIVE join_sep(_, _)
join_sep(items, sep) ==
    IF items = <<>> THEN <<>>
    ELSE IF Len(items) = 1 THEN items[1]
    ELSE items[1] \o sep \o join_sep(Tail(items), sep)

\* needle in text (a substring, token for token)
Contains(text, needle) ==
    \E i \in 1..(Len(text) - Len(needle) + 1) :
        SubSeq(text, i, i + Len(needle) - 1) = needle

\* the index where the first occurrence of needle starts, 0 if none
Find(text, needle) ==
    IF Contains(text, needle)
    THEN CHOOSE i \in 1..(Len(text) - Len(needle) + 1) :
            /\ SubSeq(text, i, i + Len(needle) - 1) = needle
            /\ \A j \in 1..(i - 1) : SubSeq(text, j, j + Len(needle) - 1) # needle
    ELSE 0

(***************************************************************************)
(* Regular expressions, matched at the start of a line (re.match).  A      *)
(* pattern is a sequence of elements: "\\s*", "\\s+", "\\b", or a literal  *)
(* token.  MatchAt returns the index after the match, 0 when it fails.     *)
(***************************************************************************)
RECURSIVE MatchAt(_, _, _)
MatchAt(l, i, pat) ==
    IF pat = <<>> THEN i
    ELSE LET e == pat[1]
         IN  CASE e = "\\s*" -> MatchAt(l, SkipBlanks(l, i), Tail(pat))
               [] e = "\\s+" -> IF SkipBlanks(l, i) > i
                                THEN MatchAt(l, SkipBlanks(l, i), Tail(pat))
                                ELSE 0
               [] e = "\\b"  -> IF \/ i > Len(l)
                                   \/ i = 1
                                   \/ ~(IsWordTok(l[i - 1]) /\ IsWordTok(l[i]))
                                THEN MatchAt(l, i, Tail(pat))
                                ELSE 0
               [] OTHER      -> IF i <= Len(l) /\ l[i] = e
                                THEN MatchAt(l, i + 1, Tail(pat))
                                ELSE 0

Matches(l, pat) == MatchAt(l, 1, pat) # 0

FROM_COLLECTIONS_RE ==
    <<"\\s*", "from", "\\s+", "collections", "\\s+", "import", "\\s+">>

IMPORT_COLLECTIONS_RE == <<"\\s*", "import", "\\s+">>

COLLECTIONS_ABC_IMPORT_RE ==
    << <<"\\s*", "import", "\\s+", "collections", ".", "abc", "\\b">>,
       <<"\\s*", "from", "\\s+", "collections", ".", "abc", "\\s+", "import", "\\b">>,
       <<"\\s*", "from", "\\s+", "collections", "\\s+", "import", "\\s+", "abc", "\\b">> >>

COLLECTIONS_IMPORT_RE ==
    << <<"\\s*", "import", "\\s+", "collections", "\\b">>,
       <<"\\s*", "from", "\\s+", "collections", "\\s+", "import", "\\b">> >>

MatchesAny(l, pats) == \E k \in 1..Len(pats) : Matches(l, pats[k])

\* the names the usage substitution rewrites, in the order of the table
REPLACEMENTS == <<"MutableMapping", "Iterable", "Callable">>

\* the change descriptions of the three substitutions
REPLACED == <<"replaced collections.MutableMapping with collections.abc.MutableMapping",
              "replaced collections.Iterable with collections.abc.Iterable",
              "replaced collections.Callable with collections.abc.Callable">>


(***************************************************************************)
(* tools/fix_collections_imports.py: the rewrite rules                     *)
(***************************************************************************)
Change(line_no, description) == [line_no |-> line_no, description |-> description]

\* (code, comment): the text before the first "#", and the rest
split_comment(line) ==
    IF FirstIdx(line, {"#"}) = 0
    THEN [code |-> line, comment |-> <<>>]
    ELSE [code    |-> SubSeq(line, 1, FirstIdx(line, {"#"}) - 1),
          comment |-> SubSeq(line, FirstIdx(line, {"#"}), Len(line))]

\* str.split(","): the pieces between the commas, empty pieces included
RECURSIVE split_comma(_)
split_comma(p) ==
    IF FirstIdx(p, {","}) = 0 THEN <<p>>
    ELSE <<SubSeq(p, 1, FirstIdx(p, {","}) - 1)>>
         \o split_comma(SubSeq(p, FirstIdx(p, {","}) + 1, Len(p)))

\* the subsequence of the elements of s that are not the empty text
RECURSIVE NonEmpty(_)
NonEmpty(s) ==
    IF s = <<>> THEN <<>>
    ELSE IF s[1] = <<>> THEN NonEmpty(Tail(s))
    ELSE <<s[1]>> \o NonEmpty(Tail(s))

parse_import_items(imports_part) ==
    LET p0 == strip(imports_part)
        p1 == IF p0 # <<>> /\ p0[1] = "(" /\ Last(p0) = ")"
              THEN SubSeq(p0, 2, Len(p0) - 1)
              ELSE p0
        pieces == split_comma(p1)
    IN  NonEmpty([i \in 1..Len(pieces) |-> strip(pieces[i])])

\* the index of the blank that opens the first " as " of an item, 0 if none
AsIdx(item) ==
    IF \E i \in 1..(Len(item) - 2) :
            IsBlank(item[i]) /\ item[i + 1] = "as" /\ IsBlank(item[i + 2])
    THEN CHOOSE i \in 1..(Len(item) - 2) :
            /\ IsBlank(item[i]) /\ item[i + 1] = "as" /\ IsBlank(item[i + 2])
            /\ \A j \in 1..(i - 1) :
                 ~(IsBlank(item[j]) /\ item[j + 1] = "as" /\ IsBlank(item[j + 2]))
    ELSE 0

base_import_name(item) ==
    IF AsIdx(item) # 0 THEN strip(SubSeq(item, 1, AsIdx(item) - 1)) ELSE strip(item)

\* the items of a list that satisfy (keep = TRUE) or fail (keep = FALSE) the
\* test base_import_name(item) == "MutableMapping"
RECURSIVE FilterMutable(_, _)
FilterMutable(items, keep) ==
    IF items = <<>> THEN <<>>
    ELSE IF (base_import_name(items[1]) = <<"MutableMapping">>) = keep
    THEN <<items[1]>> \o FilterMutable(Tail(items), keep)
    ELSE FilterMutable(Tail(items), keep)

FromCollections == <<"from", SP, "collections", SP, "import", SP>>
FromCollectionsAbc == <<"from", SP, "collections", ".", "abc", SP, "import", SP>>

\* [lines, changes]: the statements that replace one line
process_from_collections_import(line, line_no) ==
    LET line_no_ending == rstrip_nl(line)
        m == MatchAt(line_no_ending, 1, FROM_COLLECTIONS_RE)
        unchanged == [lines |-> <<line>>, changes |-> <<>>]
    IN  IF m = 0 \/ m > Len(line_no_ending) THEN unchanged
        ELSE
        LET line_ending == IF Last(line) = NL THEN <<NL>> ELSE <<>>
            indent == SubSeq(line_no_ending, 1, SkipBlanks(line_no_ending, 1) - 1)
            imports_part == SubSeq(line_no_ending, m, Len(line_no_ending))
            code == split_comment(imports_part).code
            comment == split_comment(imports_part).comment
            items == parse_import_items(code)
            mutable_items == FilterMutable(items, TRUE)
            remaining_items == FilterMutable(items, FALSE)
            mutable_comment == IF remaining_items # <<>> THEN <<>> ELSE comment
            first == IF remaining_items # <<>>
                     THEN << indent \o FromCollections
                             \o join_sep(remaining_items, <<",", SP>>)
                             \o comment \o line_ending >>
                     ELSE <<>>
            second == indent \o FromCollectionsAbc
                      \o join_sep(mutable_items, <<",", SP>>)
                      \o mutable_comment \o line_ending
        IN  IF items = <<>> \/ (\E k \in 1..Len(items) : items[k] = <<"*">>)
            THEN unchanged
            ELSE IF mutable_items = <<>> THEN unchanged
            ELSE [lines   |-> first \o <<second>>,
                  changes |-> << Change(line_no,
                                   IF remaining_items # <<>>
                                   THEN "removed MutableMapping from collections import"
                                   ELSE "replaced collections import with collections.abc for MutableMapping") >>]

\* whether \bcollections\.<name>\b matches at index i of a line
UsageAt(l, i, name) ==
    /\ i + 2 <= Len(l)
    /\ l[i] = "collections" /\ l[i + 1] = "." /\ l[i + 2] = name
    /\ (i = 1 \/ ~IsWordTok(l[i - 1]))
    /\ (i + 2 = Len(l) \/ ~IsWordTok(l[i + 3]))

\* pattern.sub: every match of collections.<name> becomes collections.abc.<name>
RECURSIVE SubUsage(_, _, _)
SubUsage(l, i, name) ==
    IF i > Len(l) THEN <<>>
    ELSE IF UsageAt(l, i, name)
    THEN <<"collections", ".", "abc", ".", name>> \o SubUsage(l, i + 3, name)
    ELSE <<l[i]>> \o SubUsage(l, i + 1, name)

\* [line, changes]: the patterns of REPLACEMENTS applied in order from index k
RECURSIVE ReplaceFrom(_, _, _)
ReplaceFrom(l, line_no, k) ==
    IF k > Len(REPLACEMENTS) THEN [line |-> l, changes |-> <<>>]
    ELSE LET hit == \E i \in 1..Len(l) : UsageAt(l, i, REPLACEMENTS[k])
             l2 == IF hit THEN SubUsage(l, 1, REPLACEMENTS[k]) ELSE l
             rest == ReplaceFrom(l2, line_no, k + 1)
         IN  [line    |-> rest.line,
              changes |-> (IF hit
                           THEN <<Change(line_no, REPLACED[k])>>
                           ELSE <<>>) \o rest.changes]

replace_collections_usage(line, line_no) == ReplaceFrom(line, line_no, 1)

has_collections_abc_import(lines) ==
    \E k \in 1..Len(lines) : MatchesAny(lines[k], COLLECTIONS_ABC_IMPORT_RE)

\* str.startswith("collections") of an item: its first token begins with that word
StartsWithCollections(item) == item # <<>> /\ item[1] = "collections"

\* one line of has_collections_import: TRUE when the line makes it return True
CollectionsImportLine(line) ==
    /\ MatchesAny(line, COLLECTIONS_IMPORT_RE)
    /\ IF lstrip(line) # <<>> /\ lstrip(line)[1] = "import"
          /\ Len(lstrip(line)) >= 2 /\ IsSpace(lstrip(line)[2])
       THEN LET body == rstrip_nl(line)
                m == MatchAt(body, 1, IMPORT_COLLECTIONS_RE)
                items == parse_import_items(
                             split_comment(SubSeq(body, m, Len(body))).code)
            IN  \/ m = 0 \/ m > Len(body)
                \/ \E k \in 1..Len(items) :
                       StartsWithCollections(base_import_name(items[k]))
       ELSE TRUE

has_collections_import(lines) ==
    \E k \in 1..Len(lines) : CollectionsImportLine(lines[k])

ImportCollectionsAbc == <<"import", SP, "collections", ".", "abc">>

\* [lines, changes]: the list after the insert, the changes with the new record
insert_collections_abc_import(lines, newline, changes) ==
    LET hits == {k \in 1..Len(lines) : MatchesAny(lines[k], COLLECTIONS_IMPORT_RE)}
    IN  IF hits = {} THEN [lines |-> lines, changes |-> changes]
        ELSE LET insert_at == CHOOSE k \in hits : \A j \in hits : j <= k
             IN  [lines   |-> SubSeq(lines, 1, insert_at)
                              \o << ImportCollectionsAbc \o newline >>
                              \o SubSeq(lines, insert_at + 1, Len(lines)),
                  changes |-> Append(changes,
                                Change(insert_at + 1, "added import collections.abc"))]

\* one pass of the loop of process_file: [lines, changes] for the line at idx
RewriteLine(line, idx) ==
    LET Usage(imp) ==
            LET Collect(reps) ==
                    [lines   |-> [k \in 1..Len(reps) |-> reps[k].line],
                     changes |-> imp.changes
                                 \o join([k \in 1..Len(reps) |-> reps[k].changes])]
            IN  Collect([k \in 1..Len(imp.lines) |->
                            replace_collections_usage(imp.lines[k], idx)])
    IN  Usage(process_from_collections_import(line, idx))

\* the loop of process_file over the lines from index idx: [lines, changes]
RECURSIVE RewriteLines(_, _)
RewriteLines(lines, idx) ==
    IF idx > Len(lines) THEN [lines |-> <<>>, changes |-> <<>>]
    ELSE LET Both(one, rest) == [lines   |-> one.lines \o rest.lines,
                                 changes |-> one.changes \o rest.changes]
         IN  Both(RewriteLine(lines[idx], idx), RewriteLines(lines, idx + 1))

\* the end of process_file without the file system: [content, changes, updated]
RewriteResult(content, fin) ==
    LET Compare(updated_content) ==
            IF updated_content = content
            THEN [content |-> content, changes |-> <<>>, updated |-> FALSE]
            ELSE [content |-> updated_content, changes |-> fin.changes, updated |-> TRUE]
    IN  Compare(join(fin.lines))

\* process_file from the split into lines on, without the file system
RewriteSplit(content, lines, loop) ==
    LET newline == <<NL>>
        collections_imported == has_collections_import(lines)
        collections_abc_imported == has_collections_abc_import(lines)
    IN  RewriteResult(content,
            IF /\ collections_imported
               /\ ~collections_abc_imported
               /\ ~has_collections_abc_import(loop.lines)
            THEN insert_collections_abc_import(loop.lines, newline, loop.changes)
            ELSE loop)

\* process_file without the file system: [content, changes, updated]
RewriteContent(content) ==
    LET Split(lines) == RewriteSplit(content, lines, RewriteLines(lines, 1))
    IN  Split(splitlines_keepends(content))


(***************************************************************************)
(* The tree.  A path is <<base, k>>: k = 0 is the file itself, k = 1 the   *)
(* file named base + BACKUP_EXT, and k = n + 1 the file named              *)
(* base + BACKUP_EXT + "." + n.  The file system is a function from the    *)
(* paths that exist to their contents.                                     *)
(***************************************************************************)
WSGI == "ryu/app/wsgi.py"
HUB == "ryu/lib/hub.py"
REQUIREMENTS == "requirements.txt"
STATE_FILE == ".ryu-modernize-state.json"
REPORT_JSON == "ryu_modernization_report.json"
REPORT_TXT == "ryu_modernization_report.txt"
COLLECTIONS_LOG == "collections_fix.log"

Bases == {WSGI, HUB, REQUIREMENTS, STATE_FILE, REPORT_JSON, REPORT_TXT, COLLECTIONS_LOG}

Paths == Bases \X (0..(MaxCounter + 1))

Orig(base) == <<base, 0>>

\* path.with_name(path.name + BACKUP_EXT)
WithBackupExt(path) == <<path[1], 1>>

\* path.with_name(f"{path.name}{backup_ext}.{counter}")
WithBackupExtCounter(path, counter) == <<path[1], counter + 1>>

\* backup_path.with_name(backup_path.name[: -len(BACKUP_EXT)])
WithoutBackupExt(backup) == <<backup[1], 0>>

\* the names rglob("*" + BACKUP_EXT) matches: those that end with the extension
EndsWithBackupExt(path) == path[2] = 1

exists(f, path) == path \in DOMAIN f

write_text(f, path, content) ==
    [q \in DOMAIN f \cup {path} |-> IF q = path THEN content ELSE f[q]]

unlink(f, path) == [q \in DOMAIN f \ {path} |-> f[q]]

\* shutil.copy2(src, dst)
copy2(f, src, dst) == write_text(f, dst, f[src])

(***************************************************************************)
(* tools/ryu_modernize.py: the ledger and the backups                      *)
(***************************************************************************)
EmptyState == [backups |-> <<>>, created_files |-> <<>>]

InSeq(x, s) == \E i \in 1..Len(s) : s[i] = x

\* a load_state that starts every session with an empty ledger
load_state_fresh(f, state_path) == EmptyState

load_state(f, state_path) ==
    IF ~exists(f, state_path) THEN EmptyState ELSE f[state_path]

save_state(f, state_path, state) == write_text(f, state_path, state)

\* ensure_backup without the test for an existing backup: the copy is made anew
ensure_backup_overwrite(f, state, path) ==
    LET backup_path_ == WithBackupExt(path)
    IN  IF ~exists(f, path) THEN [fs |-> f, state |-> state]
        ELSE [fs    |-> copy2(f, path, backup_path_),
              state |-> IF ~InSeq(backup_path_, state.backups)
                        THEN [state EXCEPT !.backups = Append(@, backup_path_)]
                        ELSE state]

\* [fs, state] after ensure_backup(path, state)
ensure_backup(f, state, path) ==
    LET backup_path_ == WithBackupExt(path)
    IN  IF exists(f, backup_path_)
        THEN [fs    |-> f,
              state |-> IF ~InSeq(backup_path_, state.backups)
                        THEN [state EXCEPT !.backups = Append(@, backup_path_)]
                        ELSE state]
        ELSE IF ~exists(f, path)
        THEN [fs |-> f, state |-> state]
        ELSE [fs    |-> copy2(f, path, backup_path_),
              state |-> [state EXCEPT !.backups = Append(@, backup_path_)]]

(***************************************************************************)
(* tools/fix_collections_imports.py: the scanner on the tree               *)
(***************************************************************************)
\* the counters the model can name; the loop of backup_path is unbounded
Counters == 1..MaxCounter

\* the backup name process_file copies to; <<>> when every name the model
\* can express is taken
backup_path(f, path) ==
    IF ~exists(f, WithBackupExt(path)) THEN WithBackupExt(path)
    ELSE IF \E c \in Counters : ~exists(f, WithBackupExtCounter(path, c))
    THEN WithBackupExtCounter(path,
            CHOOSE c \in Counters :
                /\ ~exists(f, WithBackupExtCounter(path, c))
                /\ \A d \in 1..(c - 1) : exists(f, WithBackupExtCounter(path, d)))
    ELSE <<>>

\* bytes that do not decode as text
Undecodable == <<"\\xff">>

Readable(f, path) == exists(f, path) /\ f[path] # Undecodable

\* the .py files under ryu/ that iter_py_files yields, in the order scanned
PyFiles == <<Orig(WSGI), Orig(HUB)>>

\* [fs, result] after process_file(path, dry_run = False)
process_file(f, path) ==
    IF ~Readable(f, path)
    THEN [fs |-> f, result |-> [changes |-> <<>>, updated |-> FALSE]]
    ELSE LET r == RewriteContent(f[path])
         IN  IF ~r.updated
             THEN [fs |-> f, result |-> [changes |-> <<>>, updated |-> FALSE]]
             ELSE [fs     |-> write_text(copy2(f, path, backup_path(f, path)),
                                         path, r.content),
                   result |-> [changes |-> r.changes, updated |-> TRUE]]

\* logging.FileHandler(log_file): the log is opened for appending, created if absent
open_log(f, log_path) ==
    IF exists(f, log_path) THEN f ELSE write_text(f, log_path, <<>>)

log_append(f, log_path, record) == write_text(f, log_path, Append(f[log_path], record))


(***************************************************************************)
(* tools/ryu_modernize.py: the patches                                     *)
(***************************************************************************)
ChangeRecord(path, description) == [path |-> path, description |-> description]

\* len(line) - len(line.lstrip()): the width of the leading whitespace
RECURSIVE IndentOf(_)
IndentOf(line) ==
    IF line # <<>> /\ IsSpace(line[1]) THEN Width(line[1]) + IndentOf(Tail(line)) ELSE 0

\* line.startswith("class _AlreadyHandledResponse")
StartsWithClass(line) ==
    Len(line) >= 3 /\ line[1] = "class" /\ line[2] = SP
                   /\ line[3] = "_AlreadyHandledResponse"

\* the while loop of find_class_block: the first index at or after end that
\* holds a non-blank line indented no deeper than indent; Len + 1 if none
RECURSIVE BlockEnd(_, _, _)
BlockEnd(lines, end, indent) ==
    IF end > Len(lines) THEN end
    ELSE IF strip(lines[end]) = <<>> THEN BlockEnd(lines, end + 1, indent)
    ELSE IF IndentOf(lines[end]) <= indent THEN end
    ELSE BlockEnd(lines, end + 1, indent)

\* <<start, end>>: the block is lines[start .. end - 1]; <<>> for None
find_class_block(lines) ==
    LET hits == {k \in 1..Len(lines) : StartsWithClass(lines[k])}
    IN  IF hits = {} THEN <<>>
        ELSE LET idx == CHOOSE k \in hits : \A j \in hits : k <= j
             IN  <<idx, BlockEnd(lines, idx + 1, IndentOf(lines[idx]))>>

\* "ALREADY_HANDLED" in block_text
HasAlreadyHandled(text) ==
    \E i \in 1..Len(text) :
        text[i] \in {"ALREADY_HANDLED", "_ALREADY_HANDLED", "\"ALREADY_HANDLED\""}

new_block ==
    <<"class", SP, "_AlreadyHandledResponse", "(", "Response", ")", ":", NL,
      IND, "#", SP, "XXX: Eventlet API should not be used directly.", NL,
      IND, "#", SP, "https://github.com/benoitc/gunicorn/pull/2581", NL,
      IND, "from", SP, "packaging", SP, "import", SP, "version", NL,
      IND, "import", SP, "eventlet", NL,
      IND, "if", SP, "version", ".", "parse", "(", "eventlet", ".", "__version__", ")",
           SP, ">=", SP, "version", ".", "parse", "(", "\"0.30.3\"", ")", ":", NL,
      IND, IND, "import", SP, "eventlet", ".", "wsgi", NL,
      IND, IND, "_ALREADY_HANDLED", SP, "=", SP, "getattr", "(", "eventlet", ".", "wsgi",
           ",", SP, "\"ALREADY_HANDLED\"", ",", SP, "None", ")", NL,
      IND, "else", ":", NL,
      IND, IND, "from", SP, "eventlet", ".", "wsgi", SP, "import", SP, "ALREADY_HANDLED", NL,
      IND, IND, "_ALREADY_HANDLED", SP, "=", SP, "ALREADY_HANDLED", NL,
      NL,
      IND, "def", SP, "__call__", "(", "self", ",", SP, "environ", ",", SP,
           "start_response", ")", ":", NL,
      IND, IND, "return", SP, "self", ".", "_ALREADY_HANDLED", NL,
      NL>>

\* [raised, fs, state, changes] after ensure_eventlet_already_handled
ensure_eventlet_already_handled(f, state, changes, path) ==
    IF ~Readable(f, path)
    THEN [raised |-> TRUE, fs |-> f, state |-> state, changes |-> changes]
    ELSE
    LET content == f[path]
        lines == splitlines_keepends(content)
        block == find_class_block(lines)
        same == [raised |-> FALSE, fs |-> f, state |-> state, changes |-> changes]
    IN  IF block = <<>> THEN same
        ELSE
        LET start == block[1]
            end == block[2]
            block_text == join(SubSeq(lines, start, end - 1))
            eb == ensure_backup(f, state, path)
            new_content == join(SubSeq(lines, 1, start - 1)) \o new_block
                           \o join(SubSeq(lines, end, Len(lines)))
        IN  IF Contains(block_text, <<"eventlet", ".", "wsgi">>)
               /\ HasAlreadyHandled(block_text)
            THEN same
            ELSE [raised  |-> FALSE,
                  fs      |-> write_text(eb.fs, path, new_content),
                  state   |-> eb.state,
                  changes |-> Append(changes, ChangeRecord(path,
                      "Updated _AlreadyHandledResponse for eventlet compatibility"))]

PatchCall == <<"dnspython_compat", ".", "patch_eventlet_dnspython", "(", ")">>

target_line == <<IND, "import", SP, "eventlet", NL>>

insertion ==
    target_line
    \o <<IND, "from", SP, "ryu", ".", "lib", SP, "import", SP, "dnspython_compat", NL>>
    \o <<IND>> \o PatchCall \o <<NL>>

\* content.replace(old, new, 1)
replace_first(content, old, new) ==
    IF Find(content, old) = 0 THEN content
    ELSE SubSeq(content, 1, Find(content, old) - 1) \o new
         \o SubSeq(content, Find(content, old) + Len(old), Len(content))

\* ensure_dnspython_compat without the test for its marker at lines 201-202
ensure_dnspython_compat_unmarked(f, state, changes, path) ==
    IF ~Readable(f, path)
    THEN [raised |-> TRUE, fs |-> f, state |-> state, changes |-> changes]
    ELSE
    LET content == f[path]
        eb == ensure_backup(f, state, path)
    IN  IF ~Contains(content, target_line)
        THEN [raised |-> FALSE, fs |-> f, state |-> state, changes |-> changes]
        ELSE [raised  |-> FALSE,
              fs      |-> write_text(eb.fs, path, replace_first(content, target_line, insertion)),
              state   |-> eb.state,
              changes |-> Append(changes, ChangeRecord(path,
                  "Inserted dnspython tlsabase compatibility hook"))]

\* [raised, fs, state, changes] after ensure_dnspython_compat
ensure_dnspython_compat(f, state, changes, path) ==
    IF ~Readable(f, path)
    THEN [raised |-> TRUE, fs |-> f, state |-> state, changes |-> changes]
    ELSE
    LET content == f[path]
        same == [raised |-> FALSE, fs |-> f, state |-> state, changes |-> changes]
        eb == ensure_backup(f, state, path)
    IN  IF Contains(content, PatchCall) THEN same
        ELSE IF ~Contains(content, target_line) THEN same
        ELSE [raised  |-> FALSE,
              fs      |-> write_text(eb.fs, path, replace_first(content, target_line, insertion)),
              state   |-> eb.state,
              changes |-> Append(changes, ChangeRecord(path,
                  "Inserted dnspython tlsabase compatibility hook"))]

\* REQUIRED_DEPENDENCIES, in the order of the dict: name, then the spec as
\* its operator and its version
REQUIRED_DEPENDENCIES ==
    << <<"eventlet", ">=", "0.33.3">>,
       <<"dnspython", ">=", "2.2.1">>,
       <<"greenlet", ">=", "1.1.0">>,
       <<"packaging", ">=", "20.9">>,
       <<"msgpack", ">=", "1.0.0">>,
       <<"netaddr", ">=", "0.8.0">>,
       <<"oslo.config", ">=", "5.2.0">>,
       <<"routes", ">=", "2.5.1">>,
       <<"webob", ">=", "1.8.7">> >>

RequiredNames == {REQUIRED_DEPENDENCIES[k][1] : k \in 1..Len(REQUIRED_DEPENDENCIES)}

\* f"{name}{REQUIRED_DEPENDENCIES[name]}"
RequiredLine(name) ==
    REQUIRED_DEPENDENCIES[CHOOSE k \in 1..Len(REQUIRED_DEPENDENCIES) :
                              REQUIRED_DEPENDENCIES[k][1] = name]

REQUIREMENTS_HEADER == <<"#", SP, "Ryu modernization compatibility requirements">>

\* str.lower() of a token
Lower(t) ==
    CASE t = "Eventlet" -> "eventlet"
      [] t = "WebOb"    -> "webob"
      [] t = "Routes"   -> "routes"
      [] OTHER          -> t

\* the comparison operators normalize_requirement_line looks for, in its order
SpecTokens == <<"==", ">=", "<=", "~=", "<", ">">>

\* token in name, character for character: "<" is also found in "<=", ">" in ">="
HasSpecToken(t, token) ==
    \/ t = token
    \/ (token = "<" /\ t = "<=")
    \/ (token = ">" /\ t = ">=")

\* the loop over SpecTokens from index k; the result is lower-cased by the caller
RECURSIVE NameBeforeSpec(_, _)
NameBeforeSpec(name, k) ==
    IF k > Len(SpecTokens) THEN strip(name)
    ELSE IF \E i \in 1..Len(name) : HasSpecToken(name[i], SpecTokens[k])
    THEN strip(SubSeq(name, 1,
            (CHOOSE i \in 1..Len(name) :
                /\ HasSpecToken(name[i], SpecTokens[k])
                /\ \A j \in 1..(i - 1) : ~HasSpecToken(name[j], SpecTokens[k])) - 1))
    ELSE NameBeforeSpec(name, k + 1)

\* the normalized name of a requirement line; <<>> for None (and for "")
normalize_requirement_line(line) ==
    LET stripped == strip(line)
        name == IF FirstIdx(stripped, {";"}) = 0 THEN stripped
                ELSE SubSeq(stripped, 1, FirstIdx(stripped, {";"}) - 1)
        found == NameBeforeSpec(name, 1)
    IN  IF stripped = <<>> \/ stripped[1] = "#" THEN <<>>
        ELSE [i \in 1..Len(found) |-> Lower(found[i])]

\* name in REQUIRED_DEPENDENCIES: the normalized text is one of the keys
IsRequired(name) == Len(name) = 1 /\ name[1] \in RequiredNames

\* "\n".join(lines)
JoinLines(lines) == join_sep(lines, <<NL>>)

\* a new_content that appends the required lines whether or not a
\* dependency is missing
new_content_appending(content) ==
    LET required_lines ==
            <<REQUIREMENTS_HEADER, <<>>>>
            \o [k \in 1..Len(REQUIRED_DEPENDENCIES) |-> REQUIRED_DEPENDENCIES[k]]
        lines == splitlines(content)
        names == [k \in 1..Len(lines) |-> normalize_requirement_line(lines[k])]
        updated0 == [k \in 1..Len(lines) |->
                        IF IsRequired(names[k]) THEN RequiredLine(names[k][1])
                        ELSE lines[k]]
        updated_lines ==
            (IF updated0 # <<>> /\ strip(Last(updated0)) # <<>>
             THEN Append(updated0, <<>>) ELSE updated0) \o required_lines
    IN  rstrip(JoinLines(updated_lines)) \o <<NL>>

\* new_content of update_requirements: the requirements text with every
\* required dependency at its required version
new_content(content) ==
    LET required_lines ==
            <<REQUIREMENTS_HEADER, <<>>>>
            \o [k \in 1..Len(REQUIRED_DEPENDENCIES) |-> REQUIRED_DEPENDENCIES[k]]
        lines == splitlines(content)
        names == [k \in 1..Len(lines) |-> normalize_requirement_line(lines[k])]
        updated0 == [k \in 1..Len(lines) |->
                        IF IsRequired(names[k]) THEN RequiredLine(names[k][1])
                        ELSE lines[k]]
        existing_names == {names[k][1] : k \in {j \in 1..Len(lines) : IsRequired(names[j])}}
        missing == RequiredNames \ existing_names
        updated_lines ==
            IF missing # {}
            THEN (IF updated0 # <<>> /\ strip(Last(updated0)) # <<>>
                  THEN Append(updated0, <<>>) ELSE updated0) \o required_lines
            ELSE updated0
    IN  rstrip(JoinLines(updated_lines)) \o <<NL>>

\* update_requirements without the return at line 267
update_requirements_always(f, state, changes, path) ==
    LET content == IF exists(f, path) THEN f[path] ELSE <<>>
        eb == ensure_backup(f, state, path)
        f1 == IF exists(f, path) THEN eb.fs ELSE f
        s1 == IF exists(f, path) THEN eb.state
              ELSE [state EXCEPT !.created_files = Append(@, path)]
    IN  [fs      |-> write_text(f1, path, new_content(content)),
         state   |-> s1,
         changes |-> Append(changes, ChangeRecord(path,
             "Updated requirements with modernization-compatible versions"))]

\* [fs, state, changes] after update_requirements
update_requirements(f, state, changes, path) ==
    LET content == IF exists(f, path) THEN f[path] ELSE <<>>
        eb == ensure_backup(f, state, path)
        f1 == IF exists(f, path) THEN eb.fs ELSE f
        s1 == IF exists(f, path) THEN eb.state
              ELSE [state EXCEPT !.created_files = Append(@, path)]
    IN  IF new_content(content) = content
        THEN [fs |-> f, state |-> state, changes |-> changes]
        ELSE [fs      |-> write_text(f1, path, new_content(content)),
              state   |-> s1,
              changes |-> Append(changes, ChangeRecord(path,
                  "Updated requirements with modernization-compatible versions"))]

\* the statuses of run_tests
TestStatuses == {"skipped", "passed", "failed", "error"}

\* what subprocess.run does with a command: it cannot start it (OSError),
\* the command ends with code 0 or with another code, or its output does
\* not decode as text (text=True)
TestOutcomes == {"OSError", "exit 0", "exit 1", "UnicodeDecodeError"}

\* str(exc) of the OSError of a launch that failed
LaunchError == <<"[Errno 2] No such file or directory">>

\* stdout + stderr of a command that ran
TestOutput == <<"output">>

\* tests before run_tests is called, and the result of --skip-tests
SkippedTests == [status |-> "skipped", output |-> <<>>]

\* a run_tests whose try block has no except clause
run_tests_uncaught(command, outcome) ==
    IF command = <<>> THEN [raised |-> FALSE, tests |-> SkippedTests]
    ELSE CASE outcome \in {"OSError", "UnicodeDecodeError"} ->
                [raised |-> TRUE, tests |-> SkippedTests]
           [] outcome = "exit 0" ->
                [raised |-> FALSE, tests |-> [status |-> "passed", output |-> TestOutput]]
           [] OTHER ->
                [raised |-> FALSE, tests |-> [status |-> "failed", output |-> TestOutput]]

\* [raised, tests] after run_tests(repo_root, command): the command is a list
\* of words, tests is the result without its "command" entry
run_tests(command, outcome) ==
    IF command = <<>> THEN [raised |-> FALSE, tests |-> SkippedTests]
    ELSE CASE outcome = "OSError" ->
                [raised |-> FALSE, tests |-> [status |-> "error", output |-> LaunchError]]
           [] outcome = "UnicodeDecodeError" ->
                [raised |-> TRUE, tests |-> SkippedTests]
           [] outcome = "exit 0" ->
                [raised |-> FALSE, tests |-> [status |-> "passed", output |-> TestOutput]]
           [] OTHER ->
                [raised |-> FALSE, tests |-> [status |-> "failed", output |-> TestOutput]]

\* the --tests option: absent or empty, blank, a command with an argument
TestCommands == {<<>>, <<SP>>, <<"pytest", SP, "-q">>}

\* str.split(): the words of a text
RECURSIVE split(_)
split(text) ==
    IF text = <<>> THEN <<>>
    ELSE IF IsSpace(text[1]) THEN split(Tail(text))
    ELSE <<text[1]>> \o split(Tail(text))

\* the report of a session, as far as the patches decide it: the time it was
\* written, the change records, the result of the tests and the summary
Report(timestamp, changes, tests) ==
    [timestamp |-> timestamp,
     changes   |-> changes,
     tests     |-> tests,
     summary   |-> [patches_applied |-> changes # <<>>, tests_status |-> tests.status]]

\* [fs, state] after write_report
write_report(f, state, changes, tests, timestamp) ==
    LET report_json_path == Orig(REPORT_JSON)
        report_txt_path == Orig(REPORT_TXT)
        eb1 == ensure_backup(f, state, report_json_path)
        f1 == IF exists(f, report_json_path) THEN eb1.fs ELSE f
        s1 == IF exists(f, report_json_path) THEN eb1.state
              ELSE [state EXCEPT !.created_files = Append(@, report_json_path)]
        eb2 == ensure_backup(f1, s1, report_txt_path)
        f2 == IF exists(f1, report_txt_path) THEN eb2.fs ELSE f1
        s2 == IF exists(f1, report_txt_path) THEN eb2.state
              ELSE [s1 EXCEPT !.created_files = Append(@, report_txt_path)]
        report == Report(timestamp, changes, tests)
    IN  [fs    |-> write_text(write_text(f2, report_json_path, report),
                              report_txt_path, report),
         state |-> s2]


(***************************************************************************)
(* tools/ryu_modernize.py: rollback, as the steps it takes and as a whole  *)
(***************************************************************************)
StatePath == Orig(STATE_FILE)

\* one pass of the loop over the backups: the copy, when the backup exists
rollback_copy(f, backup) ==
    IF ~exists(f, backup) THEN f ELSE copy2(f, backup, WithoutBackupExt(backup))

\* a rollback that deletes, with a backup, every numbered backup of the same
\* original
rollback_unlink_numbered(f, backup) ==
    [q \in {r \in DOMAIN f : ~(r[1] = backup[1] /\ r[2] >= 1)} |-> f[q]]

\* backup_path.unlink(), which follows the copy
rollback_unlink(f, backup) == unlink(f, backup)

\* one pass of the loop over the created files
rollback_created(f, created) == IF exists(f, created) THEN unlink(f, created) ELSE f

\* a rollback that deletes the ledger before its loops instead of after them
rollback_begin_unlink_state(f) == unlink(f, StatePath)

\* a rollback that first restores every file from the backup found next to it
rollback_begin_restore_found(f) ==
    [q \in DOMAIN f |-> IF q[2] = 0 /\ exists(f, WithBackupExt(q))
                        THEN f[WithBackupExt(q)] ELSE f[q]]

\* what rollback does to the tree before it looks for the ledger: nothing
rollback_begin(f) == f

RECURSIVE RestoreAll(_, _, _)
RestoreAll(f, backups, i) ==
    IF i > Len(backups) THEN f
    ELSE IF ~exists(f, backups[i]) THEN RestoreAll(f, backups, i + 1)
    ELSE RestoreAll(rollback_unlink(rollback_copy(f, backups[i]), backups[i]),
                    backups, i + 1)

RECURSIVE DeleteAll(_, _, _)
DeleteAll(f, created, i) ==
    IF i > Len(created) THEN f
    ELSE DeleteAll(rollback_created(f, created[i]), created, i + 1)

\* the tree after one rollback that runs to its end
rollback(f) ==
    IF ~exists(f, StatePath) THEN f
    ELSE LET state_ == load_state(f, StatePath)
         IN  unlink(DeleteAll(RestoreAll(rollback_begin(f), state_.backups, 1),
                              state_.created_files, 1),
                    StatePath)

(***************************************************************************)
(* The trees a user starts from and the edits a user makes                 *)
(***************************************************************************)
ClassLine == <<"class", SP, "_AlreadyHandledResponse", "(", "Response", ")", ":", NL>>

WsgiA ==
    <<"from", SP, "collections", SP, "import", SP, "OrderedDict", ",", SP,
      "MutableMapping", NL>>
    \o ClassLine \o <<IND, "pass", NL>>

WsgiB ==
    <<"import", SP, "collections", NL,
      "x", SP, "=", SP, "collections", ".", "Callable", NL>>
    \o ClassLine \o <<IND, "pass", NL>>

HubA == <<"def", SP, "patch", "(", ")", ":", NL>> \o target_line

HubB == <<"x", SP, "=", SP, "collections", ".", "Iterable", NL>> \o HubA

\* hub.py that already carries the compatibility hook
HubP == replace_first(HubA, target_line, insertion)

ReqA == <<"eventlet", "==", "0.30.0", NL>>

ReqB == <<"six", NL, "WebOb", NL>>

UserFiles == {WSGI, HUB, REQUIREMENTS}

\* the contents a user gives a file: the first is the one of the initial tree
UserContents(base) ==
    CASE base = WSGI -> <<WsgiA, WsgiB>>
      [] base = HUB  -> <<HubA, HubB, Undecodable, HubP>>
      [] OTHER       -> <<ReqA, ReqB>>

\* the initial trees: each user file is there with its first content, or absent
InitialTrees ==
    {[p \in {Orig(b) : b \in present} |-> UserContents(p[1])[1]] :
        present \in SUBSET UserFiles}


(***************************************************************************)
(* State                                                                   *)
(***************************************************************************)
VARIABLES
    fs,        \* the tree: existing paths -> contents
    pc,        \* where the running command is; "idle" between commands
    st,        \* apply, rollback: the ledger in memory (state)
    chs,       \* apply: the ChangeRecords so far (changes)
    tst,       \* apply: the result of run_tests (tests): [status, output]
    idx,       \* the index of the loop the command is in
    sessions,  \* apply commands started so far; also the clock of the reports
    edits,     \* user edits so far
    lastOp,    \* the last command that ended: "none", "apply", "rollback", "rollback_noop"
    exit,      \* how it ended: "ok" (returned 0), "raised", "killed"
    snap,      \* history: the tree when the last apply began
    mutated,   \* history: the paths the last completed apply wrote or created
    hist,      \* history: per apply of the run of completed applies that ends
               \* now (no rollback, no failed apply between them), the content
               \* before the session of each file it rewrote
    trail,     \* history: "apply" after a completed apply, "apply_rb" while the
               \* rollback that follows it runs, "rolled" when that rollback has
               \* ended, "other" otherwise
    rbChain,   \* history: "first" while only one rollback ran since the last
               \* other command, "retry" once rollback was started again,
               \* "none" otherwise
    rbExpect,  \* history: the tree one uninterrupted rollback would have left
    teText,    \* SpecTE: the text under the rewrite rules
    tePrev,    \* SpecTE: the text before the last application
    teRes,     \* SpecTE: [changes, updated] of the last application
    tePasses,  \* SpecTE: applications so far
    ebCalls,   \* SpecEB: calls of ensure_backup so far in the session
    ebCopies,  \* SpecEB: the copies those calls made
    ebFirst,   \* SpecEB: the content of the file at the first call
    impLine,   \* SpecImp: the line given to process_from_collections_import
    impRes,    \* SpecImp: [lines, changes] it returned; no lines before the call
    ptCalls,   \* SpecPatch: per patch, the calls so far
    ptActed,   \* SpecPatch: per patch, the calls that wrote a file, made a
               \* backup, added a ledger entry or added a ChangeRecord
    meta_path, \* SpecAlias: sys.meta_path, the finders of the process
    modules,   \* SpecAlias: the names of sys.modules under dns.rdtypes
    rdtypes,   \* SpecAlias: the attributes of the module dns.rdtypes
    alEnv,     \* SpecAlias: what is installed: [dns, packaging, target]
    alCalls,   \* SpecAlias: per function of dnspython_compat, the calls so far
    runStops,  \* SpecRun: the applies so far that did not reach their end
    runLen,    \* SpecRun: the completed applies since the last rollback or
               \* failed apply, with nothing but user edits between them
    runStart,  \* SpecRun: the tree before the first of them
    runBase,   \* SpecRun: per file one of them rewrote, the content it had
               \* before the first that did
    runNew,    \* SpecRun: the files that were not there before the first of
               \* them that wrote them
    rbLedger,  \* SpecRun: the ledger the last rollback loaded
    killTree,  \* SpecRun: the tree before the last apply that stopped early
    killLeft,  \* SpecRun: the backup files that apply left behind
    recov      \* SpecRun: "killed" after an apply that stopped early and left
               \* backups, "applied" after the completed apply that follows
               \* it, "rolled" after the rollback that follows that, else "none"

mainVars == <<fs, pc, st, chs, tst, idx, sessions, edits, lastOp, exit,
              snap, mutated, hist, trail, rbChain, rbExpect>>
teVars == <<teText, tePrev, teRes, tePasses>>
ebVars == <<ebCalls, ebCopies, ebFirst>>
impVars == <<impLine, impRes>>
ptVars == <<ptCalls, ptActed>>
alVars == <<meta_path, modules, rdtypes, alEnv, alCalls>>
runVars == <<runStops, runLen, runStart, runBase, runNew, rbLedger, killTree, killLeft, recov>>
auxVars == <<ptVars, alVars, runVars>>
vars == <<mainVars, teVars, ebVars, impVars, auxVars>>

EmptyTree == [p \in {} |-> <<>>]

NoResult == [changes |-> <<>>, updated |-> FALSE]

TEIdle == teText = <<>> /\ tePrev = <<>> /\ teRes = NoResult /\ tePasses = 0

EBIdle == ebCalls = 0 /\ ebCopies = 0 /\ ebFirst = <<>>

NoLines == [lines |-> <<>>, changes |-> <<>>]

ImpIdle == impLine = <<>> /\ impRes = NoLines

\* the in-place patches of apply, in the order apply calls them
Patches == {"eventlet", "dnspython", "requirements"}

PtIdle == ptCalls = [p \in Patches |-> 0] /\ ptActed = [p \in Patches |-> 0]

\* the functions of ryu/lib/dnspython_compat.py that other code calls
AliasFunctions == {"_install_alias_importer", "patch_eventlet_dnspython"}

NoDns == [dns |-> "absent", packaging |-> FALSE, target |-> FALSE]

AlIdle ==
    /\ meta_path = <<>> /\ modules = {} /\ rdtypes = {} /\ alEnv = NoDns
    /\ alCalls = [fn \in AliasFunctions |-> 0]

RunIdle ==
    /\ runStops = 0
    /\ runLen = 0 /\ runStart = EmptyTree /\ runBase = EmptyTree /\ runNew = {}
    /\ rbLedger = EmptyState /\ killTree = EmptyTree /\ killLeft = {} /\ recov = "none"

AuxIdle == PtIdle /\ AlIdle /\ RunIdle

Init ==
    /\ fs \in InitialTrees
    /\ pc = "idle" /\ st = EmptyState /\ chs = <<>> /\ tst = SkippedTests /\ idx = 0
    /\ sessions = 0 /\ edits = 0 /\ lastOp = "none" /\ exit = "ok"
    /\ snap = EmptyTree /\ mutated = {} /\ hist = <<>> /\ trail = "other"
    /\ rbChain = "none" /\ rbExpect = EmptyTree
    /\ TEIdle /\ EBIdle /\ ImpIdle /\ AuxIdle

ApplyPcs == {"a_scan", "a_register", "a_eventlet", "a_dnspython", "a_requirements",
             "a_tests", "a_report", "a_save"}

RollbackPcs == {"r_copy", "r_unlink", "r_created", "r_state"}

\* the variables a command holds in memory, as they are when no command runs
Forget == st' = EmptyState /\ chs' = <<>> /\ tst' = SkippedTests /\ idx' = 0

\* a user rewrites one of the source files between two commands
Edit ==
    /\ pc = "idle" /\ edits < MaxEdits
    /\ \E b \in UserFiles : \E k \in 1..Len(UserContents(b)) :
          /\ ~(exists(fs, Orig(b)) /\ fs[Orig(b)] = UserContents(b)[k])
          /\ fs' = write_text(fs, Orig(b), UserContents(b)[k])
    /\ edits' = edits + 1
    /\ trail' = "other" /\ rbChain' = "none" /\ rbExpect' = EmptyTree
    /\ UNCHANGED <<pc, st, chs, tst, idx, sessions, lastOp, exit, snap, mutated, hist>>
    /\ UNCHANGED <<teVars, ebVars, impVars, auxVars>>

(***************************************************************************)
(* apply                                                                   *)
(***************************************************************************)
\* apply, lines 400-405: the ledger is loaded, the change list is empty
ApplyStart ==
    /\ pc = "idle" /\ sessions < MaxSessions
    /\ st' = load_state(fs, StatePath)
    /\ chs' = <<>> /\ tst' = SkippedTests /\ idx' = 0
    /\ pc' = "a_scan"
    /\ sessions' = sessions + 1
    /\ snap' = fs
    /\ trail' = "other" /\ rbChain' = "none" /\ rbExpect' = EmptyTree
    /\ UNCHANGED <<fs, edits, lastOp, exit, mutated, hist>>
    /\ UNCHANGED <<teVars, ebVars, impVars, auxVars>>

LogPath == Orig(COLLECTIONS_LOG)

\* the scanner starts: setup_logger opens the log file
ScanOpen ==
    /\ pc = "a_scan" /\ idx = 0
    /\ fs' = open_log(fs, LogPath)
    /\ idx' = 1
    /\ UNCHANGED <<pc, st, chs, tst, sessions, edits, lastOp, exit,
                   snap, mutated, hist, trail, rbChain, rbExpect>>
    /\ UNCHANGED <<teVars, ebVars, impVars, auxVars>>

\* the scanner's process_file on the next .py file (a file that is not there
\* is not listed by os.walk)
ScanFile ==
    /\ pc = "a_scan" /\ idx \in 1..Len(PyFiles)
    /\ LET path == PyFiles[idx]
           r == process_file(fs, path)
       IN  IF ~exists(fs, path) THEN fs' = fs
           ELSE IF ~Readable(fs, path)
           THEN fs' = log_append(fs, LogPath, <<"Skipping", path[1]>>)
           ELSE /\ (RewriteContent(fs[path]).updated => backup_path(fs, path) # <<>>)
                /\ fs' = IF r.result.updated
                         THEN log_append(r.fs, LogPath, <<"Updated", path[1]>>)
                         ELSE r.fs
    /\ idx' = idx + 1
    /\ UNCHANGED <<pc, st, chs, tst, sessions, edits, lastOp, exit,
                   snap, mutated, hist, trail, rbChain, rbExpect>>
    /\ UNCHANGED <<teVars, ebVars, impVars, auxVars>>

\* the scanner ends with its summary line
ScanEnd ==
    /\ pc = "a_scan" /\ idx = Len(PyFiles) + 1
    /\ fs' = log_append(fs, LogPath, <<"Processed">>)
    /\ pc' = "a_register" /\ idx' = 0
    /\ UNCHANGED <<st, chs, tst, sessions, edits, lastOp, exit,
                   snap, mutated, hist, trail, rbChain, rbExpect>>
    /\ UNCHANGED <<teVars, ebVars, impVars, auxVars>>

\* the order in which rglob is taken to list the tree
GlobOrder == <<WSGI, HUB, REQUIREMENTS, REPORT_JSON, REPORT_TXT, COLLECTIONS_LOG, STATE_FILE>>

\* the loop of apply_collections_fix over repo_root.rglob("*" + BACKUP_EXT)
RECURSIVE RegisterBackups(_, _, _)
RegisterBackups(f, state, i) ==
    IF i > Len(GlobOrder) THEN state
    ELSE LET backup == <<GlobOrder[i], 1>>
         IN  IF exists(f, backup) /\ EndsWithBackupExt(backup)
                /\ ~InSeq(backup, state.backups)
             THEN RegisterBackups(f, [state EXCEPT !.backups = Append(@, backup)], i + 1)
             ELSE RegisterBackups(f, state, i + 1)

\* [state, changes] after the scanner has run: apply_collections_fix from
\* line 131 on, and lines 408-409 of apply
apply_collections_fix(f, state, changes) ==
    LET s1 == RegisterBackups(f, state, 1)
        s2 == IF exists(f, LogPath) /\ ~InSeq(LogPath, s1.created_files)
              THEN [s1 EXCEPT !.created_files = Append(@, LogPath)]
              ELSE s1
    IN  [state   |-> s2,
         changes |-> IF exists(f, LogPath)
                     THEN Append(changes,
                            ChangeRecord(LogPath, "Collections import fix log generated"))
                     ELSE changes]

Register ==
    /\ pc = "a_register"
    /\ st' = apply_collections_fix(fs, st, chs).state
    /\ chs' = apply_collections_fix(fs, st, chs).changes
    /\ pc' = "a_eventlet"
    /\ UNCHANGED <<fs, tst, idx, sessions, edits, lastOp, exit,
                   snap, mutated, hist, trail, rbChain, rbExpect>>
    /\ UNCHANGED <<teVars, ebVars, impVars, auxVars>>

\* an exception leaves apply: the process ends, nothing more is written
Raise ==
    /\ pc' = "idle" /\ Forget
    /\ lastOp' = "apply" /\ exit' = "raised"
    /\ hist' = <<>>
    /\ UNCHANGED <<fs, sessions, edits, snap, mutated, trail, rbChain, rbExpect>>

Eventlet ==
    /\ pc = "a_eventlet"
    /\ LET r == ensure_eventlet_already_handled(fs, st, chs, Orig(WSGI))
       IN  IF r.raised THEN Raise
           ELSE /\ fs' = r.fs /\ st' = r.state /\ chs' = r.changes
                /\ pc' = "a_dnspython"
                /\ UNCHANGED <<tst, idx, sessions, edits, lastOp, exit,
                               snap, mutated, hist, trail, rbChain, rbExpect>>
    /\ UNCHANGED <<teVars, ebVars, impVars, auxVars>>

Dnspython ==
    /\ pc = "a_dnspython"
    /\ LET r == ensure_dnspython_compat(fs, st, chs, Orig(HUB))
       IN  IF r.raised THEN Raise
           ELSE /\ fs' = r.fs /\ st' = r.state /\ chs' = r.changes
                /\ pc' = "a_requirements"
                /\ UNCHANGED <<tst, idx, sessions, edits, lastOp, exit,
                               snap, mutated, hist, trail, rbChain, rbExpect>>
    /\ UNCHANGED <<teVars, ebVars, impVars, auxVars>>

Requirements ==
    /\ pc = "a_requirements"
    /\ LET r == update_requirements(fs, st, chs, Orig(REQUIREMENTS))
       IN  fs' = r.fs /\ st' = r.state /\ chs' = r.changes
    /\ pc' = "a_tests"
    /\ UNCHANGED <<tst, idx, sessions, edits, lastOp, exit,
                   snap, mutated, hist, trail, rbChain, rbExpect>>
    /\ UNCHANGED <<teVars, ebVars, impVars, auxVars>>

\* lines 423-428: the tests are skipped, or run_tests starts the command of
\* --tests or ./run_tests.sh, and the environment decides what becomes of it
Tests ==
    /\ pc = "a_tests"
    /\ \E skip_tests \in BOOLEAN, test_command \in TestCommands, outcome \in TestOutcomes :
          LET r == IF skip_tests THEN [raised |-> FALSE, tests |-> SkippedTests]
                   ELSE IF test_command # <<>> THEN run_tests(split(test_command), outcome)
                   ELSE run_tests(<<"./run_tests.sh">>, outcome)
          IN  IF r.raised THEN Raise
              ELSE /\ tst' = r.tests
                   /\ pc' = "a_report"
                   /\ UNCHANGED <<fs, st, chs, idx, sessions, edits, lastOp, exit,
                                  snap, mutated, hist, trail, rbChain, rbExpect>>
    /\ UNCHANGED <<teVars, ebVars, impVars, auxVars>>

WriteReport ==
    /\ pc = "a_report"
    /\ LET r == write_report(fs, st, chs, tst, sessions)
       IN  fs' = r.fs /\ st' = r.state
    /\ pc' = "a_save"
    /\ UNCHANGED <<chs, tst, idx, sessions, edits, lastOp, exit,
                   snap, mutated, hist, trail, rbChain, rbExpect>>
    /\ UNCHANGED <<teVars, ebVars, impVars, auxVars>>

\* the paths whose content in g is not the one in f, or that f does not hold
Written(f, g) == {p \in DOMAIN g : ~exists(f, p) \/ f[p] # g[p]}

\* the files the backup manager is called for
Managed == {WSGI, HUB, REQUIREMENTS, REPORT_JSON, REPORT_TXT}

\* save_state, and apply returns 0
Save ==
    /\ pc = "a_save"
    /\ fs' = save_state(fs, StatePath, st)
    /\ pc' = "idle" /\ Forget
    /\ lastOp' = "apply" /\ exit' = "ok"
    /\ mutated' = Written(snap, fs')
    /\ hist' = Append(hist,
                 [p \in {q \in DOMAIN snap : q[2] = 0 /\ q[1] \in Managed
                                              /\ fs'[q] # snap[q]} |-> snap[p]])
    /\ trail' = "apply"
    /\ UNCHANGED <<sessions, edits, snap, rbChain, rbExpect>>
    /\ UNCHANGED <<teVars, ebVars, impVars, auxVars>>

\* the process is stopped between two steps of apply
ApplyInterrupt ==
    /\ pc \in ApplyPcs
    /\ pc' = "idle" /\ Forget
    /\ lastOp' = "apply" /\ exit' = "killed"
    /\ hist' = <<>>
    /\ UNCHANGED <<fs, sessions, edits, snap, mutated, trail, rbChain, rbExpect>>
    /\ UNCHANGED <<teVars, ebVars, impVars, auxVars>>

(***************************************************************************)
(* rollback                                                                *)
(***************************************************************************)
\* lines 376-378: no ledger, nothing to roll back
RollbackNoLedger ==
    /\ pc = "idle" /\ ~exists(rollback_begin(fs), StatePath)
    /\ fs' = rollback_begin(fs)
    /\ lastOp' = "rollback_noop" /\ exit' = "ok"
    /\ trail' = "other"
    /\ UNCHANGED <<pc, st, chs, tst, idx, sessions, edits, snap, mutated, hist,
                   rbChain, rbExpect>>
    /\ UNCHANGED <<teVars, ebVars, impVars, auxVars>>

\* line 380: the ledger is loaded
RollbackStart ==
    /\ pc = "idle" /\ exists(fs, StatePath)
    /\ fs' = rollback_begin(fs)
    /\ st' = load_state(fs, StatePath)
    /\ pc' = "r_copy" /\ idx' = 1
    /\ trail' = IF trail = "apply" THEN "apply_rb" ELSE "other"
    /\ rbChain' = IF rbChain = "none" THEN "first" ELSE "retry"
    /\ rbExpect' = IF rbChain = "none" THEN rollback(fs) ELSE rbExpect
    /\ hist' = <<>>
    /\ UNCHANGED <<chs, tst, sessions, edits, lastOp, exit, snap, mutated>>
    /\ UNCHANGED <<teVars, ebVars, impVars, auxVars>>

\* lines 381-386: the next backup entry; a backup that is gone is passed over
RollbackCopy ==
    /\ pc = "r_copy"
    /\ IF idx > Len(st.backups)
       THEN /\ pc' = "r_created" /\ idx' = 1 /\ fs' = fs
       ELSE IF ~exists(fs, st.backups[idx])
       THEN /\ pc' = pc /\ idx' = idx + 1 /\ fs' = fs
       ELSE /\ fs' = rollback_copy(fs, st.backups[idx])
            /\ pc' = "r_unlink" /\ idx' = idx
    /\ UNCHANGED <<st, chs, tst, sessions, edits, lastOp, exit, snap, mutated, hist,
                   trail, rbChain, rbExpect>>
    /\ UNCHANGED <<teVars, ebVars, impVars, auxVars>>

\* line 387
RollbackUnlink ==
    /\ pc = "r_unlink"
    /\ fs' = rollback_unlink(fs, st.backups[idx])
    /\ pc' = "r_copy" /\ idx' = idx + 1
    /\ UNCHANGED <<st, chs, tst, sessions, edits, lastOp, exit, snap, mutated, hist,
                   trail, rbChain, rbExpect>>
    /\ UNCHANGED <<teVars, ebVars, impVars, auxVars>>

\* lines 389-392
RollbackCreated ==
    /\ pc = "r_created"
    /\ IF idx > Len(st.created_files)
       THEN /\ pc' = "r_state" /\ idx' = 0 /\ fs' = fs
       ELSE /\ fs' = rollback_created(fs, st.created_files[idx])
            /\ pc' = pc /\ idx' = idx + 1
    /\ UNCHANGED <<st, chs, tst, sessions, edits, lastOp, exit, snap, mutated, hist,
                   trail, rbChain, rbExpect>>
    /\ UNCHANGED <<teVars, ebVars, impVars, auxVars>>

\* lines 394-396: the ledger is deleted, rollback returns 0
RollbackState ==
    /\ pc = "r_state"
    /\ fs' = unlink(fs, StatePath)
    /\ pc' = "idle" /\ Forget
    /\ lastOp' = "rollback" /\ exit' = "ok"
    /\ trail' = IF trail = "apply_rb" THEN "rolled" ELSE "other"
    /\ UNCHANGED <<sessions, edits, snap, mutated, hist, rbChain, rbExpect>>
    /\ UNCHANGED <<teVars, ebVars, impVars, auxVars>>

\* the process is stopped between two steps of rollback
RollbackInterrupt ==
    /\ pc \in RollbackPcs
    /\ pc' = "idle" /\ Forget
    /\ lastOp' = "rollback" /\ exit' = "killed"
    /\ trail' = "other"
    /\ UNCHANGED <<fs, sessions, edits, snap, mutated, hist, rbChain, rbExpect>>
    /\ UNCHANGED <<teVars, ebVars, impVars, auxVars>>

Next ==
    \/ Edit
    \/ ApplyStart \/ ScanOpen \/ ScanFile \/ ScanEnd \/ Register
    \/ Eventlet \/ Dnspython \/ Requirements \/ Tests \/ WriteReport \/ Save
    \/ ApplyInterrupt
    \/ RollbackNoLedger \/ RollbackStart \/ RollbackCopy \/ RollbackUnlink
    \/ RollbackCreated \/ RollbackState \/ RollbackInterrupt

Spec == Init /\ [][Next]_vars

(***************************************************************************)
(* SpecTE: the rewrite rules of the scanner applied again and again to one *)
(* text, for every text of a bounded set.                                  *)
(***************************************************************************)
\* lines of a text under the rewrite rules in one text (specification SpecTE)
MaxLines == 2

\* the lines the texts are made of, without their line ending
TELines ==
    { <<"from", SP, "collections", SP, "import", SP, "OrderedDict", ",", SP,
        "MutableMapping">>,
      <<"from", SP, "collections", SP, "import", SP, "MutableMapping">>,
      <<"from", SP, "collections", SP, "import", SP, "*">>,
      <<"import", SP, "collections">>,
      <<"import", SP, "collections", ".", "abc">>,
      <<"x", SP, "=", SP, "collections", ".", "Callable">>,
      <<"x", SP, "=", SP, "1">> }

\* the texts of n lines, each line with its line ending
TETextsOf(n) == {join([i \in 1..n |-> ls[i] \o <<NL>>]) : ls \in [1..n -> TELines]}

\* the texts: 1 .. MaxLines lines, the last one with or without its line ending
TETexts ==
    LET whole == UNION {TETextsOf(n) : n \in 1..MaxLines}
    IN  whole \cup {SubSeq(t, 1, Len(t) - 1) : t \in whole}

\* the variables of the commands, while no command is modelled
MainIdle(at) ==
    /\ fs = EmptyTree
    /\ pc = at /\ st = EmptyState /\ chs = <<>> /\ tst = SkippedTests /\ idx = 0
    /\ sessions = 0 /\ edits = 0 /\ lastOp = "none" /\ exit = "ok"
    /\ snap = EmptyTree /\ mutated = {} /\ hist = <<>> /\ trail = "other"
    /\ rbChain = "none" /\ rbExpect = EmptyTree

InitTE ==
    /\ MainIdle("te") /\ EBIdle /\ ImpIdle /\ AuxIdle
    /\ teText \in TETexts
    /\ tePrev = <<>> /\ teRes = NoResult /\ tePasses = 0

\* the rules of process_file are applied to the text once more
TERewrite ==
    /\ pc = "te" /\ tePasses < MaxPasses
    /\ LET r == RewriteContent(teText)
       IN  /\ teText' = r.content
           /\ teRes' = [changes |-> r.changes, updated |-> r.updated]
    /\ tePrev' = teText
    /\ tePasses' = tePasses + 1
    /\ UNCHANGED <<mainVars, ebVars, impVars, auxVars>>

NextTE == TERewrite

SpecTE == InitTE /\ [][NextTE]_vars

(***************************************************************************)
(* SpecEB: one session calls ensure_backup for the same path again and     *)
(* again, and rewrites the file between the calls.                         *)
(***************************************************************************)
EBPath == Orig(REQUIREMENTS)

EBBackup == WithBackupExt(EBPath)

\* the contents the file and an older backup of it can have
EBContents == {ReqA, ReqB, <<"eventlet", ">=", "0.33.3", NL>>}

\* the trees a session can start from: the file, with or without a backup
\* that an earlier session left
EBTrees ==
    {[p \in {EBPath} |-> c] : c \in EBContents}
    \cup {[p \in {EBPath, EBBackup} |-> IF p = EBPath THEN c[1] ELSE c[2]] :
            c \in EBContents \X EBContents}

\* the ledgers load_state can return: none yet, or one that lists the backup
EBStates == {EmptyState, [EmptyState EXCEPT !.backups = <<EBBackup>>]}

InitEB ==
    /\ fs \in EBTrees /\ st \in EBStates
    /\ pc = "eb" /\ chs = <<>> /\ tst = SkippedTests /\ idx = 0
    /\ sessions = 0 /\ edits = 0 /\ lastOp = "none" /\ exit = "ok"
    /\ snap = EmptyTree /\ mutated = {} /\ hist = <<>> /\ trail = "other"
    /\ rbChain = "none" /\ rbExpect = EmptyTree
    /\ TEIdle /\ EBIdle /\ ImpIdle /\ AuxIdle

\* ensure_backup(path, state) is called once more
EBCall ==
    /\ pc = "eb" /\ ebCalls < MaxCalls
    /\ LET r == ensure_backup(fs, st, EBPath)
       IN  /\ fs' = r.fs /\ st' = r.state
           /\ ebCopies' = ebCopies + (IF r.fs # fs THEN 1 ELSE 0)
    /\ ebFirst' = IF ebCalls = 0 THEN fs[EBPath] ELSE ebFirst
    /\ ebCalls' = ebCalls + 1
    /\ UNCHANGED <<pc, chs, tst, idx, sessions, edits, lastOp, exit,
                   snap, mutated, hist, trail, rbChain, rbExpect>>
    /\ UNCHANGED <<teVars, impVars, auxVars>>

\* the session rewrites the file between two calls
EBWrite ==
    /\ pc = "eb" /\ edits < MaxEdits
    /\ \E c \in EBContents :
          /\ c # fs[EBPath]
          /\ fs' = write_text(fs, EBPath, c)
    /\ edits' = edits + 1
    /\ UNCHANGED <<pc, st, chs, tst, idx, sessions, lastOp, exit,
                   snap, mutated, hist, trail, rbChain, rbExpect>>
    /\ UNCHANGED <<teVars, ebVars, impVars, auxVars>>

NextEB == EBCall \/ EBWrite

SpecEB == InitEB /\ [][NextEB]_vars

(***************************************************************************)
(* SpecImp: process_from_collections_import on one line, for every line of *)
(* a bounded set of single-line "from collections import" statements.      *)
(***************************************************************************)
\* items of the import list of one line (specification SpecImp)
MaxItems == 3

\* the items an import list is made of
ImpItems ==
    { <<"OrderedDict">>,
      <<"MutableMapping">>,
      <<"MutableMapping", SP, "as", SP, "MM">>,
      <<"OrderedDict", SP, "as", SP, "OD">>,
      <<"*">> }

\* the import lists: 1 .. MaxItems items, separated by ", "
ImpLists ==
    UNION {{join_sep(its, <<",", SP>>) : its \in [1..n -> ImpItems]} : n \in 1..MaxItems}

\* the lines: indented or not, the list in parentheses or not, with or without
\* a comment, with or without the line ending
ImpLines ==
    {indent \o FromCollections \o wrap[1] \o list \o wrap[2] \o comment \o ending :
        indent \in {<<>>, <<IND>>},
        list \in ImpLists,
        wrap \in {<< <<>>, <<>> >>, << <<"(">>, <<")">> >>},
        comment \in {<<>>, <<SP, SP, "#", SP, "c">>},
        ending \in {<<>>, <<NL>>}}

InitImp ==
    /\ MainIdle("imp") /\ TEIdle /\ EBIdle /\ AuxIdle
    /\ impLine \in ImpLines
    /\ impRes = NoLines

\* process_from_collections_import(line, 1) is called
ImpCall ==
    /\ pc = "imp" /\ impRes = NoLines
    /\ impRes' = process_from_collections_import(impLine, 1)
    /\ UNCHANGED <<mainVars, teVars, ebVars, impLine, auxVars>>

NextImp == ImpCall

SpecImp == InitImp /\ [][NextImp]_vars

(***************************************************************************)
(* SpecPatch: the three in-place patches of apply, each called again and   *)
(* again on the tree the calls before it left, for every tree of a bounded *)
(* set.                                                                    *)
(***************************************************************************)
\* calls of the patches on one tree (specification SpecPatch)
MaxPatchCalls == 4
\* lines of a requirements file (specification SpecPatch)
MaxReqLines == 2

\* wsgi.py: the class followed by a blank line and code at the top level
WsgiTail == ClassLine \o <<IND, "pass", NL, NL, "x", SP, "=", SP, "1", NL>>

\* wsgi.py: the class at the end of a file without a final line ending
WsgiNoEnd == <<"import", SP, "os", NL>> \o ClassLine \o <<IND, "pass">>

\* wsgi.py: the class names eventlet.wsgi but not ALREADY_HANDLED
WsgiHalf == ClassLine \o <<IND, "import", SP, "eventlet", ".", "wsgi", NL, IND, "pass", NL>>

\* wsgi.py: a method with a deeper body, then another class
WsgiNested ==
    ClassLine
    \o <<IND, "def", SP, "__call__", "(", "self", ")", ":", NL,
         IND, IND, "return", SP, "None", NL,
         "class", SP, "Other", ":", NL, IND, "pass", NL>>

\* wsgi.py without the class
WsgiNone == <<"x", SP, "=", SP, "1", NL>>

\* wsgi.py that already carries the new block
WsgiDone == <<"import", SP, "os", NL>> \o new_block \o WsgiNone

WsgiContents == {WsgiA, WsgiB, WsgiTail, WsgiNoEnd, WsgiHalf, WsgiNested, WsgiNone, WsgiDone}

\* hub.py with the target line in two functions
HubTwice == HubA \o <<"def", SP, "other", "(", ")", ":", NL>> \o target_line

\* hub.py whose "import eventlet" has no line ending
HubNoEnd == <<"def", SP, "patch", "(", ")", ":", NL, IND, "import", SP, "eventlet">>

\* hub.py without the target line
HubNone == <<"import", SP, "eventlet", NL>>

HubContents == {HubA, HubB, HubP, HubTwice, HubNoEnd, HubNone, Undecodable}

\* the lines a requirements file is made of, without their line ending
ReqLines ==
    { <<"eventlet", "==", "0.30.0">>,
      <<"Eventlet">>,
      <<"dnspython", ">=", "2.2.1">>,
      <<SP, "webob", SP, "<", SP, "2", SP, ";", SP, "python_version", ">", "\"3\"">>,
      <<"six", SP>>,
      <<"#", SP, "eventlet">>,
      <<>> }

\* the texts of n lines, each line with its line ending
ReqTextsOf(n) == {join([i \in 1..n |-> ls[i] \o <<NL>>]) : ls \in [1..n -> ReqLines]}

\* the requirements files: empty, 1 .. MaxReqLines lines with the last line
\* ending or not, and the file update_requirements writes when there is none
ReqContents ==
    LET whole == UNION {ReqTextsOf(n) : n \in 1..MaxReqLines}
    IN  whole \cup {SubSeq(t, 1, Len(t) - 1) : t \in whole}
        \cup {<<>>, new_content(<<>>)}

\* the tree with the three targets; requirements.txt is absent when present is FALSE
PatchTree(wsgi, hub, present, requirements) ==
    [p \in {Orig(WSGI), Orig(HUB)} \cup (IF present THEN {Orig(REQUIREMENTS)} ELSE {}) |->
        CASE p = Orig(WSGI) -> wsgi
          [] p = Orig(HUB)  -> hub
          [] OTHER          -> requirements]

\* the trees: every wsgi.py with every hub.py, and every requirements.txt
PatchTrees ==
    {PatchTree(w, h, present, ReqA) : w \in WsgiContents, h \in HubContents,
                                      present \in BOOLEAN}
    \cup {PatchTree(WsgiA, HubA, TRUE, r) : r \in ReqContents}

InitPatch ==
    /\ fs \in PatchTrees
    /\ pc = "patch" /\ st = EmptyState /\ chs = <<>> /\ tst = SkippedTests /\ idx = 0
    /\ sessions = 0 /\ edits = 0 /\ lastOp = "none" /\ exit = "ok"
    /\ snap = EmptyTree /\ mutated = {} /\ hist = <<>> /\ trail = "other"
    /\ rbChain = "none" /\ rbExpect = EmptyTree
    /\ TEIdle /\ EBIdle /\ ImpIdle /\ AuxIdle

\* what a call of a patch does to the variables: r is what the patch
\* returned; an exception leaves the tree, the ledger and the changes alone
Patched(patch, r) ==
    /\ pc = "patch"
    /\ ptCalls["eventlet"] + ptCalls["dnspython"] + ptCalls["requirements"] < MaxPatchCalls
    /\ fs' = r.fs /\ st' = r.state /\ chs' = r.changes
    /\ ptCalls' = [ptCalls EXCEPT ![patch] = @ + 1]
    /\ ptActed' = [ptActed EXCEPT ![patch] =
                      @ + (IF <<r.fs, r.state, r.changes>> # <<fs, st, chs>> THEN 1 ELSE 0)]
    /\ UNCHANGED <<pc, tst, idx, sessions, edits, lastOp, exit,
                   snap, mutated, hist, trail, rbChain, rbExpect>>
    /\ UNCHANGED <<teVars, ebVars, impVars, alVars, runVars>>

CallEventlet == Patched("eventlet", ensure_eventlet_already_handled(fs, st, chs, Orig(WSGI)))

CallDnspython == Patched("dnspython", ensure_dnspython_compat(fs, st, chs, Orig(HUB)))

CallRequirements == Patched("requirements", update_requirements(fs, st, chs, Orig(REQUIREMENTS)))

NextPatch == CallEventlet \/ CallDnspython \/ CallRequirements

SpecPatch == InitPatch /\ [][NextPatch]_vars

(***************************************************************************)
(* SpecAlias: ryu/lib/dnspython_compat.py.  One process calls              *)
(* patch_eventlet_dnspython and _install_alias_importer again and again,   *)
(* while other code of the process registers finders of its own.           *)
(***************************************************************************)
\* calls of the functions of dnspython_compat in one process (specification SpecAlias)
MaxAliasCalls == 3
\* finders in sys.meta_path (specification SpecAlias)
MaxFinders == 6

_ALIAS == "dns.rdtypes.tlsabase"
_TARGET == "dns.rdtypes.tlsa_base"

\* a finder of sys.meta_path: its class and, for an _AliasModuleFinder, the
\* name it answers for
Finder(cls, alias) == [cls |-> cls, alias |-> alias]

\* the finder _AliasModuleFinder(_ALIAS, _TARGET)
_AliasModuleFinder == Finder("_AliasModuleFinder", _ALIAS)

\* the finders the interpreter starts with
StandardFinders ==
    <<Finder("BuiltinImporter", ""), Finder("FrozenImporter", ""), Finder("PathFinder", "")>>

\* a finder that other code of the process registers
ForeignFinder == Finder("_SixMetaPathImporter", "")

\* isinstance(finder, _AliasModuleFinder) and finder._alias == _ALIAS
IsAliasFinder(finder) == finder.cls = "_AliasModuleFinder" /\ finder.alias = _ALIAS

\* an _install_alias_importer that does not look at sys.meta_path first
_install_alias_importer_unchecked(finders) == <<_AliasModuleFinder>> \o finders

\* sys.meta_path after _install_alias_importer()
_install_alias_importer(finders) ==
    IF \E i \in 1..Len(finders) : IsAliasFinder(finders[i])
    THEN finders
    ELSE <<_AliasModuleFinder>> \o finders

\* _parse_version(dns.__version__): "None" without packaging or for a version
\* that does not parse, else on which side of 2.0.0 the version is
_parse_version(env) ==
    IF ~env.packaging \/ env.dns = "unparsable" THEN "None" ELSE env.dns

\* [ret, meta_path, modules, rdtypes] after patch_eventlet_dnspython()
patch_eventlet_dnspython(env, finders, mods, attrs) ==
    LET same == [ret |-> FALSE, meta_path |-> finders, modules |-> mods, rdtypes |-> attrs]
        \* importlib.import_module(_TARGET) binds the module in its package
        imported == env.target
        attrs1 == IF imported THEN attrs \cup {"tlsa_base"} ELSE attrs
        mods1 == IF imported THEN mods \cup {_TARGET} ELSE mods
        attrs2 == IF "tlsa_base" \in attrs1 /\ "tlsabase" \notin attrs1
                  THEN attrs1 \cup {"tlsabase"} ELSE attrs1
        mods2 == IF imported THEN mods1 \cup {_ALIAS} ELSE mods1
    IN  IF env.dns = "absent" THEN same
        ELSE IF _parse_version(env) = "old" THEN same
        ELSE [ret       |-> TRUE,
              meta_path |-> _install_alias_importer(finders),
              modules   |-> mods2,
              rdtypes   |-> attrs2]

\* what can be installed: no dnspython, one before 2.0.0, one from 2.0.0 on,
\* one whose version does not parse; packaging or not; and whether
\* dns.rdtypes.tlsa_base can be imported
AliasEnvs ==
    {env \in [dns : {"absent", "old", "new", "unparsable"},
              packaging : BOOLEAN, target : BOOLEAN] :
        env.target => env.dns \in {"new", "unparsable"}}

InitAlias ==
    /\ MainIdle("alias") /\ TEIdle /\ EBIdle /\ ImpIdle /\ PtIdle /\ RunIdle
    /\ meta_path \in {StandardFinders, <<ForeignFinder>> \o StandardFinders}
    /\ alEnv \in AliasEnvs
    /\ modules \in (IF alEnv.dns = "old" THEN {{}, {_ALIAS}} ELSE {{}})
    /\ rdtypes = (IF _ALIAS \in modules THEN {"tlsabase"} ELSE {})
    /\ alCalls = [fn \in AliasFunctions |-> 0]

AliasCalled(fn) ==
    /\ pc = "alias"
    /\ alCalls["_install_alias_importer"] + alCalls["patch_eventlet_dnspython"] < MaxAliasCalls
    /\ alCalls' = [alCalls EXCEPT ![fn] = @ + 1]

\* other code calls _install_alias_importer()
CallInstall ==
    /\ AliasCalled("_install_alias_importer")
    /\ meta_path' = _install_alias_importer(meta_path)
    /\ UNCHANGED <<modules, rdtypes, alEnv>>
    /\ UNCHANGED <<mainVars, teVars, ebVars, impVars, ptVars, runVars>>

\* hub.py, or other code, calls patch_eventlet_dnspython()
CallPatch ==
    /\ AliasCalled("patch_eventlet_dnspython")
    /\ LET r == patch_eventlet_dnspython(alEnv, meta_path, modules, rdtypes)
       IN  meta_path' = r.meta_path /\ modules' = r.modules /\ rdtypes' = r.rdtypes
    /\ UNCHANGED alEnv
    /\ UNCHANGED <<mainVars, teVars, ebVars, impVars, ptVars, runVars>>

\* other code of the process puts a finder of its own first in sys.meta_path
ForeignInsert ==
    /\ pc = "alias" /\ Len(meta_path) < MaxFinders
    /\ meta_path' = <<ForeignFinder>> \o meta_path
    /\ UNCHANGED <<modules, rdtypes, alEnv, alCalls>>
    /\ UNCHANGED <<mainVars, teVars, ebVars, impVars, ptVars, runVars>>

NextAlias == CallInstall \/ CallPatch \/ ForeignInsert

SpecAlias == InitAlias /\ [][NextAlias]_vars

(***************************************************************************)
(* SpecRun: whole commands.  A user edits files, apply runs (to its end,   *)
(* or until it raises or the process is stopped), rollback runs to its     *)
(* end.  Each command is one step, so that several sessions fit the        *)
(* bounds.                                                                 *)
(***************************************************************************)
\* apply commands in one behaviour of SpecRun
MaxRunSessions == 3

\* user edits in one behaviour of SpecRun
MaxRunEdits == 1

\* apply commands of one behaviour of SpecRun that do not reach their end
MaxRunStops == 1

\* apply at work: the tree, the variables apply holds, and how far it is:
\* "run", "done" (it returned 0), "raised", or "nameless" when the scanner
\* needs a backup name the model cannot express
Session(f, state, changes, tests, out) ==
    [fs |-> f, state |-> state, changes |-> changes, tests |-> tests, out |-> out]

\* the scanner after process_file returned r for a file it could read
scanned(s, path, r) ==
    IF r.result.updated
    THEN [s EXCEPT !.fs = log_append(r.fs, LogPath, <<"Updated", path[1]>>)]
    ELSE s

\* the scanner's process_file on one .py file, with its log records
scan_file(s, path) ==
    IF ~exists(s.fs, path) THEN s
    ELSE IF ~Readable(s.fs, path)
    THEN [s EXCEPT !.fs = log_append(s.fs, LogPath, <<"Skipping", path[1]>>)]
    ELSE IF backup_path(s.fs, path) = <<>> /\ RewriteContent(s.fs[path]).updated
    THEN [s EXCEPT !.out = "nameless"]
    ELSE scanned(s, path, process_file(s.fs, path))

\* apply after a patch returned r, or raised
patched(s, r) ==
    IF r.raised THEN [s EXCEPT !.out = "raised"]
    ELSE [s EXCEPT !.fs = r.fs, !.state = r.state, !.changes = r.changes]

\* apply after a function returned r, which holds some of its variables
returned(s, r) == [x \in DOMAIN s |-> IF x \in DOMAIN r THEN r[x] ELSE s[x]]

\* the steps of apply: the scanner opens its log, visits the .py files and
\* writes its summary; then lines 131-139 and 408-431
ApplySteps == Len(PyFiles) + 9

\* step k of apply; test is what run_tests makes of the tests: [raised, tests]
apply_step(s, k, test, timestamp) ==
    CASE k = 1 -> [s EXCEPT !.fs = open_log(s.fs, LogPath)]
      [] k \in 2..(Len(PyFiles) + 1) -> scan_file(s, PyFiles[k - 1])
      [] k = Len(PyFiles) + 2 ->
            [s EXCEPT !.fs = log_append(s.fs, LogPath, <<"Processed">>)]
      [] k = Len(PyFiles) + 3 ->
            returned(s, apply_collections_fix(s.fs, s.state, s.changes))
      [] k = Len(PyFiles) + 4 ->
            patched(s, ensure_eventlet_already_handled(s.fs, s.state, s.changes, Orig(WSGI)))
      [] k = Len(PyFiles) + 5 ->
            patched(s, ensure_dnspython_compat(s.fs, s.state, s.changes, Orig(HUB)))
      [] k = Len(PyFiles) + 6 ->
            returned(s, update_requirements(s.fs, s.state, s.changes, Orig(REQUIREMENTS)))
      [] k = Len(PyFiles) + 7 ->
            IF test.raised THEN [s EXCEPT !.out = "raised"]
            ELSE [s EXCEPT !.tests = test.tests]
      [] k = Len(PyFiles) + 8 ->
            returned(s, write_report(s.fs, s.state, s.changes, s.tests, timestamp))
      [] OTHER ->
            [s EXCEPT !.fs = save_state(s.fs, StatePath, s.state), !.out = "done"]

\* apply from s on, which k - 1 steps have led to, up to step n: what apply
\* has come to after each of these steps, s first
RECURSIVE apply_steps(_, _, _, _, _)
apply_steps(s, k, n, test, timestamp) ==
    IF k > n \/ s.out # "run" THEN <<s>>
    ELSE <<s>> \o apply_steps(apply_step(s, k, test, timestamp), k + 1, n, test, timestamp)

\* the step of apply that runs the tests
TestsStep == Len(PyFiles) + 7

\* apply on the tree f, lines 400-421: where it stands at its start and
\* after each step before the tests
apply_begin(f) ==
    apply_steps(Session(f, load_state(f, StatePath), <<>>, SkippedTests, "run"),
                1, TestsStep - 1, [raised |-> FALSE, tests |-> SkippedTests], 0)

\* apply, lines 423-431, from where s stands: after each step from the tests on
apply_end(s, test, timestamp) ==
    Tail(apply_steps(s, TestsStep, ApplySteps, test, timestamp))

\* what lines 423-428 can make of the tests
TestResults ==
    {[raised |-> FALSE, tests |-> SkippedTests]}
    \cup {run_tests(split(c), o) : c \in TestCommands \ {<<>>}, o \in TestOutcomes}
    \cup {run_tests(<<"./run_tests.sh">>, o) : o \in TestOutcomes}

\* the trees a user starts from: each source file absent or with any of the
\* contents a user gives it
RunTrees ==
    {[p \in {Orig(b) : b \in present} |-> UserContents(p[1])[k[p[1]]]] :
        present \in SUBSET UserFiles,
        k \in {j \in [UserFiles -> 1..4] : \A b \in UserFiles : j[b] <= Len(UserContents(b))}}

InitRun ==
    /\ fs \in RunTrees
    /\ pc = "run" /\ st = EmptyState /\ chs = <<>> /\ tst = SkippedTests /\ idx = 0
    /\ sessions = 0 /\ edits = 0 /\ lastOp = "none" /\ exit = "ok"
    /\ snap = EmptyTree /\ mutated = {} /\ hist = <<>> /\ trail = "other"
    /\ rbChain = "none" /\ rbExpect = EmptyTree
    /\ TEIdle /\ EBIdle /\ ImpIdle /\ AuxIdle

\* the files apply calls ensure_backup for
ManagedPaths == {Orig(b) : b \in Managed}

\* the backup files that g holds and f does not
BackupsMade(f, g) == {q \in DOMAIN g \ DOMAIN f : q[2] >= 1}

\* a user rewrites one of the source files between two commands
RunEdit ==
    /\ pc = "run" /\ edits < MaxRunEdits
    /\ \E b \in UserFiles : \E k \in 1..Len(UserContents(b)) :
          /\ ~(exists(fs, Orig(b)) /\ fs[Orig(b)] = UserContents(b)[k])
          /\ fs' = write_text(fs, Orig(b), UserContents(b)[k])
    /\ edits' = edits + 1
    /\ trail' = IF trail = "rolled" THEN "other" ELSE trail
    /\ recov' = "none" /\ killTree' = EmptyTree /\ killLeft' = {}
    /\ UNCHANGED <<pc, st, chs, tst, idx, sessions, lastOp, exit, snap, mutated, hist,
                   rbChain, rbExpect>>
    /\ UNCHANGED <<runStops, runLen, runStart, runBase, runNew, rbLedger>>
    /\ UNCHANGED <<teVars, ebVars, impVars, ptVars, alVars>>

\* a run of completed applies is under way: the last command was one
RunGoesOn == runLen >= 1 /\ lastOp = "apply" /\ exit = "ok" /\ trail = "apply"

\* the files apply calls ensure_backup for that differ between f and g and
\* that no earlier apply of the run has written
FirstWritten(f, g) ==
    {p \in Written(f, g) \cap ManagedPaths :
        ~RunGoesOn \/ (p \notin DOMAIN runBase /\ p \notin runNew)}

\* what an apply command that went as far as s does to the variables
Applied(s) ==
    /\ s.out # "nameless"
    /\ s.out # "done" => runStops < MaxRunStops
    /\ fs' = s.fs
    /\ exit' = CASE s.out = "done" -> "ok"
                  [] s.out = "raised" -> "raised"
                  [] OTHER -> "killed"
    /\ runStops' = IF s.out = "done" THEN runStops ELSE runStops + 1
    /\ IF s.out = "done"
       THEN /\ runLen' = IF RunGoesOn THEN runLen + 1 ELSE 1
            /\ runStart' = IF RunGoesOn THEN runStart ELSE fs
            /\ runBase' =
                  [p \in {q \in FirstWritten(fs, s.fs) : exists(fs, q)}
                         \cup (IF RunGoesOn THEN DOMAIN runBase ELSE {}) |->
                      IF RunGoesOn /\ p \in DOMAIN runBase THEN runBase[p] ELSE fs[p]]
            /\ runNew' = {q \in FirstWritten(fs, s.fs) : ~exists(fs, q)}
                         \cup (IF RunGoesOn THEN runNew ELSE {})
            /\ trail' = "apply"
            /\ recov' = IF recov = "killed" THEN "applied" ELSE "none"
            /\ killTree' = IF recov = "killed" THEN killTree ELSE EmptyTree
            /\ killLeft' = IF recov = "killed" THEN killLeft ELSE {}
       ELSE /\ runLen' = 0 /\ runStart' = EmptyTree
            /\ runBase' = EmptyTree /\ runNew' = {}
            /\ trail' = "other"
            /\ recov' = IF BackupsMade(fs, s.fs) # {} THEN "killed" ELSE "none"
            /\ killTree' = IF BackupsMade(fs, s.fs) # {} THEN fs ELSE EmptyTree
            /\ killLeft' = BackupsMade(fs, s.fs)

\* apply ends in one of the places the steps from the tests on lead to
ApplyEnds(end) == \E n \in 1..Len(end) : Applied(end[n])

\* apply stops where one of the steps before the tests has left it, or goes
\* on to the tests and stops after one of the later steps or returns
ApplyFrom(begin) ==
    \/ \E n \in 1..Len(begin) : Applied(begin[n])
    \/ /\ begin[Len(begin)].out = "run"
       /\ \E test \in TestResults :
             ApplyEnds(apply_end(begin[Len(begin)], test, sessions + 1))

\* the apply command, from its start to its return, to the exception that
\* leaves it, or to the moment the process is stopped between two steps
RunApply ==
    /\ pc = "run" /\ sessions < MaxRunSessions
    /\ ApplyFrom(apply_begin(fs))
    /\ sessions' = sessions + 1
    /\ lastOp' = "apply"
    /\ rbLedger' = EmptyState
    /\ UNCHANGED <<pc, st, chs, tst, idx, edits, snap, mutated, hist, rbChain, rbExpect>>
    /\ UNCHANGED <<teVars, ebVars, impVars, ptVars, alVars>>

\* the rollback command, from its start to its return
RunRollback ==
    /\ pc = "run"
    /\ fs' = rollback(fs)
    /\ lastOp' = IF exists(fs, StatePath) THEN "rollback" ELSE "rollback_noop"
    /\ exit' = "ok"
    /\ rbLedger' = load_state(fs, StatePath)
    /\ trail' = IF RunGoesOn THEN "rolled" ELSE "other"
    /\ recov' = IF recov = "applied" THEN "rolled" ELSE "none"
    /\ killTree' = IF recov = "applied" THEN killTree ELSE EmptyTree
    /\ killLeft' = IF recov = "applied" THEN killLeft ELSE {}
    /\ UNCHANGED runStops
    /\ IF RunGoesOn THEN UNCHANGED <<runLen, runStart, runBase, runNew>>
       ELSE runLen' = 0 /\ runStart' = EmptyTree /\ runBase' = EmptyTree /\ runNew' = {}
    /\ UNCHANGED <<pc, st, chs, tst, idx, sessions, edits, snap, mutated, hist,
                   rbChain, rbExpect>>
    /\ UNCHANGED <<teVars, ebVars, impVars, ptVars, alVars>>

NextRun == RunEdit \/ RunApply \/ RunRollback

SpecRun == InitRun /\ [][NextRun]_vars

(***************************************************************************)
(* The claims                                                              *)
(***************************************************************************)
\* the paths of the reports
ReportPaths == {Orig(REPORT_JSON), Orig(REPORT_TXT)}

\* a path is the name of a backup file
IsBackup(p) == p[2] >= 1

\* C1: rollback is lossless.  When a completed apply is followed at once by
\* a rollback that runs to its end, every file the apply wrote has the content
\* it had when the apply began, no file is there that was not there when the
\* apply began, and the ledger file is gone.
C1_RollbackLossless ==
    trail = "rolled" =>
        /\ \A p \in mutated \ {StatePath} :
              IF p \in DOMAIN snap
              THEN exists(fs, p) /\ fs[p] = snap[p]
              ELSE ~exists(fs, p)
        /\ \A p \in DOMAIN fs : p \in DOMAIN snap
        /\ ~exists(fs, StatePath)

\* C2: ledger durability.  Wherever apply can be interrupted, and after it
\* was, every backup file the session created is listed in the ledger file
\* on disk.
C2_LedgerDurable ==
    (pc \in ApplyPcs \/ (pc = "idle" /\ lastOp = "apply" /\ exit = "killed")) =>
        \A p \in DOMAIN fs :
            (IsBackup(p) /\ p \notin DOMAIN snap) =>
                /\ exists(fs, StatePath)
                /\ InSeq(p, fs[StatePath].backups)

\* C3: partial-failure isolation.  An apply that began with the target of a
\* patch missing or unreadable, and that nobody interrupted, returns 0 and
\* leaves both reports and the ledger on disk.
C3_MissingTargetIsolated ==
    (/\ pc = "idle" /\ lastOp = "apply" /\ exit # "killed"
     /\ \E b \in UserFiles : ~Readable(snap, Orig(b))) =>
        /\ exit = "ok"
        /\ \A p \in ReportPaths : exists(fs, p)
        /\ exists(fs, StatePath)

\* C4: the rewrite rules are idempotent.  From the second application on,
\* the rules return the text they were given and report no change.
C4_Idempotent ==
    tePasses >= 2 => (teText = tePrev /\ teRes = NoResult)

\* C5: backup collision freedom.  After two completed applies in a row, for
\* every file both of them rewrote there are two backup files under distinct
\* names, one with the content before the first apply and one with the
\* content before the second.
C5_DistinctBackups ==
    (pc = "idle" /\ lastOp = "apply" /\ exit = "ok" /\ Len(hist) >= 2) =>
        LET first == hist[Len(hist) - 1]
            second == hist[Len(hist)]
        IN  \A p \in DOMAIN first \cap DOMAIN second :
                \E k1, k2 \in 1..(MaxCounter + 1) :
                    /\ k1 # k2
                    /\ exists(fs, <<p[1], k1>>) /\ fs[<<p[1], k1>>] = first[p]
                    /\ exists(fs, <<p[1], k2>>) /\ fs[<<p[1], k2>>] = second[p]

\* C6: no backup is ever overwritten.  In every step, a backup file that
\* exists keeps its content, or it is removed by the unlink of rollback.
C6_BackupKept ==
    [][\A p \in DOMAIN fs :
          IsBackup(p) =>
              \/ (p \in DOMAIN fs' /\ fs'[p] = fs[p])
              \/ (pc = "r_unlink" /\ p \notin DOMAIN fs')]_vars

\* C6, the case: in a session that began with a backup of wsgi.py on disk,
\* the scanner has made a second backup and the eventlet patch has rewritten
\* the file, and the first backup is as it was.
C6_Witness ==
    /\ pc = "a_dnspython"
    /\ exists(snap, WithBackupExt(Orig(WSGI)))
    /\ exists(fs, WithBackupExtCounter(Orig(WSGI), 1))
    /\ ~exists(snap, WithBackupExtCounter(Orig(WSGI), 1))
    /\ fs[Orig(WSGI)] # snap[Orig(WSGI)]
    /\ fs[WithBackupExt(Orig(WSGI))] = snap[WithBackupExt(Orig(WSGI))]
    /\ fs[WithBackupExt(Orig(WSGI))] # fs[WithBackupExtCounter(Orig(WSGI), 1)]

\* C7: rollback is safe to retry.  When rollback has returned 0, after any
\* number of interrupted rollbacks before it and no other command between
\* them, the tree is the one a single uninterrupted rollback would have left.
C7_RetrySafe ==
    (/\ pc = "idle" /\ lastOp \in {"rollback", "rollback_noop"} /\ exit = "ok"
     /\ rbChain # "none") =>
        fs = rbExpect

\* C7, the case: a rollback of a completed apply was interrupted, was run
\* again and has returned 0, and it has restored or deleted files.
C7_Witness ==
    /\ pc = "idle" /\ lastOp = "rollback" /\ exit = "ok"
    /\ rbChain = "retry"
    /\ mutated # {}
    /\ fs = rbExpect
    /\ ~exists(fs, StatePath)
    /\ \E p \in mutated : ~exists(fs, p)

\* C8: rollback is order-independent.  In every ledger on disk, the
\* originals of the backup entries and the created files are pairwise
\* distinct paths.
C8_DisjointEntries ==
    exists(fs, StatePath) =>
        LET s == fs[StatePath]
            origs == [i \in 1..Len(s.backups) |-> WithoutBackupExt(s.backups[i])]
                     \o s.created_files
        IN  \A i, j \in 1..Len(origs) : i # j => origs[i] # origs[j]

\* C9: rollback without a ledger is a no-op.  A rollback that finds no
\* ledger file returns 0 and leaves every file of the tree as it was.
C9_NoLedgerNoop ==
    [][(/\ pc = "idle" /\ ~exists(fs, StatePath)
        /\ pc' = "idle" /\ lastOp' = "rollback_noop" /\ edits' = edits) =>
           (fs' = fs /\ exit' = "ok")]_vars

\* C9, the case: rollback has returned without a ledger on a tree that holds
\* a backup file whose content is not that of its original.
C9_Witness ==
    /\ pc = "idle" /\ lastOp = "rollback_noop" /\ exit = "ok"
    /\ ~exists(fs, StatePath)
    /\ \E p \in DOMAIN fs :
          /\ IsBackup(p)
          /\ exists(fs, WithoutBackupExt(p))
          /\ fs[WithoutBackupExt(p)] # fs[p]

\* the number of entries of s that are x
Count(x, s) == Cardinality({i \in 1..Len(s) : s[i] = x})

\* C10: ensure_backup is idempotent within a session.  After any number of
\* calls for the same existing path, exactly one copy was made, the backup
\* holds the content the file had at the first call, and the ledger lists
\* the backup exactly once.
C10_OneCopy ==
    ebCalls >= 1 =>
        /\ ebCopies = 1
        /\ exists(fs, EBBackup) /\ fs[EBBackup] = ebFirst
        /\ Count(EBBackup, st.backups) = 1

\* the ledger on disk after an apply that returned 0
ApplyDone == pc = "idle" /\ lastOp = "apply" /\ exit = "ok" /\ exists(fs, StatePath)

\* C11: the ledger records every backup.  After a completed apply, every
\* backup file the session created, under the plain backup name or under a
\* name with a counter, is listed in the backups of the saved ledger.
C11_LedgerListsBackups ==
    ApplyDone =>
        \A p \in DOMAIN fs :
            (IsBackup(p) /\ p \notin DOMAIN snap) => InSeq(p, fs[StatePath].backups)

\* the ledger a session began with
StartState == load_state(snap, StatePath)

\* the entries of s from index n + 1 on, as a set
Added(s, n) == {s[i] : i \in (n + 1)..Len(s)}

\* C12: created files are new.  After a completed apply, every path the
\* session appended to created_files was absent from the tree when the
\* session began.
C12_CreatedWereAbsent ==
    ApplyDone =>
        \A p \in Added(fs[StatePath].created_files, Len(StartState.created_files)) :
            ~exists(snap, p)


\* C13: ledger backups are on disk and hold the content before the mutation.
\* After a completed apply, every backup the saved ledger lists exists; one
\* that was there when the session began is as it was then, and one the
\* session made holds the content its original had when the session began.
C13_BackupsHoldOriginal ==
    ApplyDone =>
        \A i \in 1..Len(fs[StatePath].backups) :
            LET backup == fs[StatePath].backups[i]
                original == WithoutBackupExt(backup)
            IN  /\ exists(fs, backup)
                /\ IF exists(snap, backup)
                   THEN fs[backup] = snap[backup]
                   ELSE exists(snap, original) /\ fs[backup] = snap[original]

\* C14: a second apply changes nothing.  After two completed applies in a
\* row on a tree nobody edited, the report of the second lists no change,
\* its summary says that no patch was applied, and the second session has
\* rewritten none of the source files.
C14_SecondApplyNoChanges ==
    (ApplyDone /\ Len(hist) >= 2 /\ edits = 0) =>
        /\ fs[Orig(REPORT_JSON)].changes = <<>>
        /\ ~fs[Orig(REPORT_JSON)].summary.patches_applied
        /\ \A b \in UserFiles : Orig(b) \notin DOMAIN hist[Len(hist)]

\* every entry of the ledger old is an entry of the ledger new
Keeps(old, new) ==
    /\ \A i \in 1..Len(old.backups) : InSeq(old.backups[i], new.backups)
    /\ \A i \in 1..Len(old.created_files) : InSeq(old.created_files[i], new.created_files)

\* C15: an existing ledger is resumed, never stripped.  In every step that
\* starts with a ledger file on disk, the ledger file is there afterwards
\* with every entry it had (apply saves the ledger it loaded, with what the
\* session added), or the step is the last one of rollback, which deletes it.
C15_LedgerResumed ==
    [][exists(fs, StatePath) =>
          IF exists(fs', StatePath)
          THEN Keeps(fs[StatePath], fs'[StatePath])
          ELSE pc = "r_state"]_vars

\* C15, the case: an apply that began with a ledger listing backups and
\* created files has returned 0, and the ledger it saved holds those entries
\* and entries of its own.
C15_Witness ==
    /\ ApplyDone
    /\ exists(snap, StatePath)
    /\ snap[StatePath].backups # <<>> /\ snap[StatePath].created_files # <<>>
    /\ Keeps(snap[StatePath], fs[StatePath])
    /\ Len(fs[StatePath].backups) > Len(snap[StatePath].backups)

\* the line ending of a line: "\n" or none
EndingOf(line) == IF line # <<>> /\ Last(line) = NL THEN <<NL>> ELSE <<>>

\* the leading blanks of a line
LeadingBlanks(line) == SubSeq(line, 1, SkipBlanks(line, 1) - 1)

StartsWith(line, prefix) ==
    Len(line) >= Len(prefix) /\ SubSeq(line, 1, Len(prefix)) = prefix

\* the items a statement imports, read from the text that follows prefix
ItemsAfter(line, prefix) ==
    parse_import_items(
        split_comment(SubSeq(rstrip_nl(line), Len(prefix) + 1, Len(rstrip_nl(line)))).code)

LastImport(lines) ==
    IF \E k \in 1..Len(lines) : MatchesAny(lines[k], COLLECTIONS_IMPORT_RE)
    THEN CHOOSE k \in 1..Len(lines) :
            /\ MatchesAny(lines[k], COLLECTIONS_IMPORT_RE)
            /\ \A j \in (k + 1)..Len(lines) : ~MatchesAny(lines[j], COLLECTIONS_IMPORT_RE)
    ELSE 0

\* C17: missing-import insertion.  Let the text be rewritten by the other
\* rules first.  When the input imports collections and neither the input
\* nor the rewritten statements import collections.abc, the result is the
\* rewritten text with one line "import collections.abc" more, a line of its
\* own right after the last line that matches a collections import.  When
\* the input or the rewritten statements import collections.abc, the result
\* is the rewritten text with no line added.
C17_InsertOnce ==
    tePasses >= 1 =>
        LET before == splitlines_keepends(tePrev)
            rewritten == RewriteLines(before, 1).lines
            text == splitlines_keepends(join(rewritten))
            after == splitlines_keepends(teText)
            present == \/ has_collections_abc_import(before)
                       \/ has_collections_abc_import(rewritten)
        IN  /\ (has_collections_import(before) /\ ~present) =>
                  /\ LastImport(text) # 0
                  /\ after = SubSeq(text, 1, LastImport(text))
                             \o << ImportCollectionsAbc \o <<NL>> >>
                             \o SubSeq(text, LastImport(text) + 1, Len(text))
            /\ present => after = text

\* C18: backups are lazy.  When the scanner's process_file finds that the
\* rewritten content of a file is its content, and when update_requirements
\* finds the same for requirements.txt, the step leaves the whole tree as it
\* is (nothing written, no backup made, no line logged), the ledger in
\* memory as it is and the change list as it is.
C18_LazyBackups ==
    [][(\/ /\ pc = "a_scan" /\ idx \in 1..Len(PyFiles) /\ idx' = idx + 1
           /\ Readable(fs, PyFiles[idx])
           /\ RewriteContent(fs[PyFiles[idx]]).content = fs[PyFiles[idx]]
        \/ /\ pc = "a_requirements" /\ pc' = "a_tests"
           /\ exists(fs, Orig(REQUIREMENTS))
           /\ new_content(fs[Orig(REQUIREMENTS)]) = fs[Orig(REQUIREMENTS)]) =>
            (fs' = fs /\ st' = st /\ chs' = chs)]_vars

\* C18, the case: in a session that began with wsgi.py, hub.py and
\* requirements.txt already in their rewritten form, the scanner and
\* update_requirements have run, and none of the three was written or
\* backed up and no change to requirements.txt is reported.
C18_Witness ==
    /\ pc = "a_tests"
    /\ \A k \in 1..Len(PyFiles) :
          /\ Readable(snap, PyFiles[k])
          /\ RewriteContent(snap[PyFiles[k]]).content = snap[PyFiles[k]]
          /\ fs[PyFiles[k]] = snap[PyFiles[k]]
    /\ exists(snap, Orig(REQUIREMENTS))
    /\ new_content(snap[Orig(REQUIREMENTS)]) = snap[Orig(REQUIREMENTS)]
    /\ fs[Orig(REQUIREMENTS)] = snap[Orig(REQUIREMENTS)]
    /\ \A p \in DOMAIN fs : IsBackup(p) => p \in DOMAIN snap
    /\ \A i \in 1..Len(chs) : chs[i].path # Orig(REQUIREMENTS)

\* the command lists apply hands to run_tests
CommandLists == {split(c) : c \in TestCommands \ {<<>>}} \cup {<<"./run_tests.sh">>}

\* C19: a test command that cannot be launched is not fatal.  run_tests
\* answers a launch that failed with the status "error" and the error as
\* output, and every status it returns is one of the four.  Once apply holds
\* that result, each of its steps goes on unless the process is stopped: the
\* reports are written with the result in them, then the ledger is saved and
\* apply returns 0.
C19_LaunchErrorNotFatal ==
    [][/\ \A command \in CommandLists \ {<<>>} :
             run_tests(command, "OSError") =
                 [raised |-> FALSE, tests |-> [status |-> "error", output |-> LaunchError]]
       /\ \A command \in CommandLists, outcome \in TestOutcomes :
             run_tests(command, outcome).tests.status \in TestStatuses
       /\ (pc = "a_tests" /\ pc' = "a_report") => tst'.status \in TestStatuses
       /\ (pc = "a_report" /\ tst.status = "error") =>
             \/ pc' = "idle" /\ exit' = "killed"
             \/ /\ pc' = "a_save"
                /\ \A p \in ReportPaths : exists(fs', p) /\ fs'[p].tests = tst
       /\ (pc = "a_save" /\ tst.status = "error") =>
             \/ pc' = "idle" /\ exit' = "killed"
             \/ /\ pc' = "idle" /\ lastOp' = "apply" /\ exit' = "ok"
                /\ exists(fs', StatePath) /\ fs'[StatePath] = st
                /\ \A p \in ReportPaths : exists(fs', p) /\ fs'[p].tests = tst]_vars

\* C19, the case: apply has returned 0 and the reports of this session say
\* that the tests ended with a launch error.
C19_Witness ==
    /\ ApplyDone
    /\ \A p \in ReportPaths :
          /\ exists(fs, p)
          /\ fs[p].timestamp = sessions
          /\ fs[p].tests = [status |-> "error", output |-> LaunchError]
          /\ fs[p].summary.tests_status = "error"

\* C20: the backup precedes the mutation.  Take a session that began on a
\* tree whose files were as a user or a completed apply had left them (the
\* first session, or one that follows a completed apply).  At every point of
\* it, every file of the patches (wsgi.py, hub.py, requirements.txt, the
\* reports) that was there when the session began and no longer has the
\* content it had then, has a backup file that holds that content.
C20_BackupBeforeWrite ==
    (pc \in ApplyPcs /\ (sessions = 1 \/ Len(hist) >= 1)) =>
        \A p \in DOMAIN snap :
            (p[2] = 0 /\ p[1] \in Managed /\ fs[p] # snap[p]) =>
                \E k \in 1..(MaxCounter + 1) :
                    exists(fs, <<p[1], k>>) /\ fs[<<p[1], k>>] = snap[p]

\* C21: each in-place patch establishes its own marker.  Of any number of
\* calls of ensure_eventlet_already_handled on one wsgi.py, and of
\* ensure_dnspython_compat on one hub.py, at most one writes the file, makes
\* a backup, adds a ledger entry or adds a ChangeRecord: once a call has
\* rewritten the target, every later call finds the marker and returns.
C21_MarkerStops ==
    \A patch \in {"eventlet", "dnspython"} : ptActed[patch] <= 1

\* C21, the case: both patches were called, each has rewritten its target and
\* was called again on the result; the change list holds one record for each.
C21_Witness ==
    /\ ptCalls["eventlet"] >= 2 /\ ptActed["eventlet"] = 1
    /\ ptCalls["dnspython"] >= 2 /\ ptActed["dnspython"] = 1
    /\ Len(chs) = 2
    /\ HasAlreadyHandled(fs[Orig(WSGI)])
    /\ Contains(fs[Orig(HUB)], PatchCall)
    /\ Len(st.backups) = 2

\* C22: update_requirements is idempotent.  For every requirements file,
\* absent ones included: once update_requirements was called, the file
\* holds for every required dependency a line that is its name followed by
\* its required spec; and of any number of calls at most one writes the
\* file, makes a backup, adds a created_files entry or adds a ChangeRecord.
C22_RequirementsIdempotent ==
    /\ ptActed["requirements"] <= 1
    /\ ptCalls["requirements"] >= 1 =>
          /\ exists(fs, Orig(REQUIREMENTS))
          /\ \A k \in 1..Len(REQUIRED_DEPENDENCIES) :
                InSeq(REQUIRED_DEPENDENCIES[k], splitlines(fs[Orig(REQUIREMENTS)]))

\* C22, the case: update_requirements was called where there was no file,
\* has created it, and was called again on the file it wrote.
C22_Witness ==
    /\ ptCalls["requirements"] >= 2 /\ ptActed["requirements"] = 1
    /\ st.created_files = <<Orig(REQUIREMENTS)>>
    /\ fs[Orig(REQUIREMENTS)] = new_content(<<>>)
    /\ Len(chs) = 1

\* the alias finders for dns.rdtypes.tlsabase in a list of finders
AliasFinders(finders) == {i \in 1..Len(finders) : IsAliasFinder(finders[i])}

\* C23: alias registration is idempotent.  After any number of calls of
\* patch_eventlet_dnspython and of _install_alias_importer, sys.meta_path
\* holds at most one alias finder for dns.rdtypes.tlsabase.
C23_OneAliasFinder ==
    Cardinality(AliasFinders(meta_path)) <= 1

\* C23, the case: both functions were called, three calls in all, other
\* code has registered a finder after the alias finder was installed, and
\* sys.meta_path holds the alias finder once, no longer in the first place.
C23_Witness ==
    /\ alCalls["patch_eventlet_dnspython"] >= 1
    /\ alCalls["_install_alias_importer"] >= 1
    /\ alCalls["patch_eventlet_dnspython"] + alCalls["_install_alias_importer"] >= 3
    /\ Cardinality(AliasFinders(meta_path)) = 1
    /\ ~IsAliasFinder(meta_path[1])
    /\ _ALIAS \in modules

\* the paths whose content differs between two trees, or that only one holds
Touched(f, g) ==
    {p \in DOMAIN f \cup DOMAIN g : ~(exists(f, p) /\ exists(g, p) /\ f[p] = g[p])}

\* the paths a ledger names: its backup entries, their originals, its
\* created_files entries, and the ledger file itself
NamedByLedger(state) ==
    {StatePath}
    \cup {state.backups[i] : i \in 1..Len(state.backups)}
    \cup {WithoutBackupExt(state.backups[i]) : i \in 1..Len(state.backups)}
    \cup {state.created_files[i] : i \in 1..Len(state.created_files)}

\* a step of the rollback command: one that starts it, one it takes while it
\* runs, or the return at line 378
RollbackStep ==
    \/ pc \in RollbackPcs
    \/ pc' \in RollbackPcs
    \/ pc = "idle" /\ pc' = "idle" /\ edits' = edits

\* the ledger rollback works from: the one it has loaded, or the one it loads
RollbackLedger == IF pc \in RollbackPcs THEN st ELSE load_state(fs, StatePath)

\* C25: rollback touches only what the ledger names.  No step of rollback
\* changes, creates or removes a file other than the originals of the
\* ledger's backup entries, those backup files, the created_files entries
\* and the ledger file itself; every other file of the tree is unchanged.
C25_RollbackFrame ==
    [][RollbackStep => Touched(fs, fs') \subseteq NamedByLedger(RollbackLedger)]_vars

\* C25, the case: rollback has restored and deleted every backup of the
\* ledger and deleted the created files, and the tree holds a numbered
\* backup of the scanner, which the ledger does not name, and a source file
\* that was never backed up.
C25_Witness ==
    /\ pc = "r_state"
    /\ Len(st.backups) >= 2 /\ Len(st.created_files) >= 1
    /\ \A i \in 1..Len(st.backups) : ~exists(fs, st.backups[i])
    /\ exists(fs, WithBackupExtCounter(Orig(WSGI), 1))
    /\ WithBackupExtCounter(Orig(WSGI), 1) \notin NamedByLedger(st)
    /\ \E b \in UserFiles : exists(fs, Orig(b)) /\ Orig(b) \notin NamedByLedger(st)

\* the files whose backup under the plain name a ledger lists: those
\* ensure_backup has copied, or has found copied
BackedUp(state) == {p \in ManagedPaths : InSeq(WithBackupExt(p), state.backups)}

\* a tree that holds no ledger and no backup file
CleanTree(f) == ~exists(f, StatePath) /\ \A q \in DOMAIN f : q[2] = 0

\* one rollback has just run after a run of completed applies that began in
\* a clean tree
RolledBackRun == pc = "run" /\ trail = "rolled" /\ runLen >= 1 /\ CleanTree(runStart)

C26_Recovery ==
    /\ recov = "applied" =>
          \A b \in killLeft : InSeq(b, load_state(fs, StatePath).backups)
    /\ recov = "rolled" =>
          \A b \in killLeft :
              /\ exists(fs, WithoutBackupExt(b))
              /\ fs[WithoutBackupExt(b)] = killTree[WithoutBackupExt(b)]

=============================================================================
